---------------------------- MODULE Spec2Model ----------------------------
(***************************************************************************)
(* A model of the ICP / ICRC ledger scanners of icp-scanner.               *)
(*                                                                         *)
(*   SpecSegments  the scan window and buildSegments (src/scanner.ts)      *)
(*   Spec          one parallel ledger scan: scanIcpLedger/scanIcrcLedger  *)
(*                 with the two pLimit limiters, fetchIcpBlocks /          *)
(*                 fetchIcrc3Blocks and the block handlers                 *)
(*   SpecSeq       the sequential scanIcpLedger variant                    *)
(*   SpecClassify  the block handlers and the REST scanner's row mapping   *)
(*                 applied to one block / transaction                      *)
(*   SpecFunctions the decoding and formatting helpers applied to one      *)
(*                 input: extractAccount, normalizeSub / eqAccount,        *)
(*                 formatAmount / toUnitsBig                               *)
(*   SpecRestIcp   scanner.scanIcp of the REST scanner: the fallback over  *)
(*                 its data sources                                        *)
(*   SpecRun       main / scanner.run: sanity checks, CSV header, the      *)
(*                 ledgers' scans, the report file and the summary line    *)
(*                                                                         *)
(* Every specification owns a group of variables and leaves the other      *)
(* groups at their idle value.                                             *)
(***************************************************************************)
EXTENDS Integers, Sequences, FiniteSets, TLC

VARIABLES
  \* ---- SpecSegments
  sgPc,        \* "input" | "built"
  sgLedger,    \* "ICP" | "ICRC3": which scanner computes the window
  sgLength,    \* chain_length / log_length reported by the ledger
  sgMaxBlocks, \* MAX_BLOCKS_PER_LEDGER
  sgPage,      \* PAGE
  sgSegs       \* the segments returned by buildSegments

sgVars == <<sgPc, sgLedger, sgLength, sgMaxBlocks, sgPage, sgSegs>>

VARIABLES
  \* ---- SpecClassify
  clPc,        \* "input" | "handled" | "judged"
  clSite,      \* "icpBlock" | "icrc3Block" | "restIcp" | "restIcrc"
  clCfg,       \* the configuration the handler reads
  clInput,     \* the block or the API transaction handed to the handler
  clDecoded,   \* the from / to identities handleIcrcBlock decoded
  clRows,      \* rows appended to the CSV file
  clThrown,    \* TRUE when the handler ended with an exception
  clVerdict    \* what the sanity check's wouldCapture... says of the same block

clVars == <<clPc, clSite, clCfg, clInput, clDecoded, clRows, clThrown, clVerdict>>

VARIABLES
  \* ---- Spec: one parallel ledger scan
  scPc,           \* "start" | "scanning" | "returned"
  scLedger,       \* "ICP" (scanIcpLedger) | "ICRC3" (scanIcrcLedger)
  scLength,       \* chain_length / log_length of the ledger
  scBoundary,     \* first block the ledger still holds; older blocks are archived
  scConc,         \* CONCURRENCY
  scArchConc,     \* ARCHIVE_CONCURRENCY
  scPage,         \* PAGE
  scMaxBlocks,    \* MAX_BLOCKS_PER_LEDGER
  scSegs,         \* segs
  scSegState,     \* per segment: "queued" | "main" | "arch" | "done" | "failed"
  scFetches,      \* per segment: number of main queries issued
  scOut,          \* per segment: the out array of its fetch
  scArch,         \* archive-range tasks handed to limitArchive
  scLimit,        \* limit = pLimit(CONCURRENCY): [active, queue]
  scLimitArchive, \* limitArchive = pLimit(ARCHIVE_CONCURRENCY)
  scHandled,      \* per segment: block indices handed to the block handler
  scRows,         \* rows emitted
  scErrors        \* console.error entries: "length" or a segment number

scCfgVars == <<scLedger, scLength, scBoundary, scConc, scArchConc, scPage, scMaxBlocks>>
scVars == <<scPc, scCfgVars, scSegs, scSegState, scFetches, scOut, scArch,
            scLimit, scLimitArchive, scHandled, scRows, scErrors>>

VARIABLES
  \* ---- SpecSeq: the sequential scanIcpLedger
  sqPc,        \* "start" | "loop" | "returned"
  sqLength,    \* chain_length
  sqBoundary,  \* first block the ledger still holds
  sqPage,      \* PAGE
  sqMaxBlocks, \* MAX_BLOCKS_PER_LEDGER
  sqCursor,    \* cursor
  sqScanned,   \* scanned
  sqFetched,   \* the pages queried so far: [start, length, failed]
  sqRows,      \* rows
  sqErrors     \* number of console.error entries

sqVars == <<sqPc, sqLength, sqBoundary, sqPage, sqMaxBlocks, sqCursor, sqScanned,
            sqFetched, sqRows, sqErrors>>

VARIABLES
  \* ---- SpecFunctions: one pure function applied to one input
  fnPc,        \* "ready" | "done"
  fnName,      \* the function applied
  fnIn,        \* its arguments
  fnOut        \* its result

fnVars == <<fnPc, fnName, fnIn, fnOut>>

VARIABLES
  \* ---- SpecRun: main / scanner.run
  rnVariant,   \* "block": parallel main of scanner.ts; "rest": scanner.run of
               \* api_scanner.ts; "batch": the batch-write main of scanner.ts
  rnPc,        \* "sanity" | "scans" | "summary" | "failed" (main rejected)
  rnRun,       \* number of the run against the same file and ledger state
  rnChecks,    \* the sanity checks: "pending" | "meta" | "running" | "done" | "failed"
  rnMeta,      \* per sanity check, getSymbolAndDecimals: "none" | "ok" | "default"
  rnFile,      \* the report file: [exists, lines]
  rnFile0,     \* the report file when the run started
  rnMatching,  \* per ledger: matching transactions the ledger holds
  rnScan,      \* per ledger: "idle" | "started" | "scanning" | "returned" | "caught"
  rnNext,      \* per ledger: next matching transaction to be handled
  rnRows,      \* per ledger: rows.length / count the scan handed to main
  rnLog,       \* console.error entries of the run: <<ledger or "main", kind>>
  rnTotal      \* the total printed in the summary line

rnVars == <<rnVariant, rnPc, rnRun, rnChecks, rnMeta, rnFile, rnFile0, rnMatching, rnScan,
            rnNext, rnRows, rnLog, rnTotal>>

VARIABLES
  \* ---- SpecRestIcp: scanner.scanIcp of the REST scanner
  rsPc,        \* "rosetta" | "smoke" | "v2" | "v1" | "global" | "returned" | "thrown"
  rsTried,     \* the data sources queried so far, in the order of their first call
  rsResult,    \* per data source: "untried" | "failed" | "empty" | "some"
  rsGot,       \* per data source: transactions it contributed
  rsTx,        \* transactions.length
  rsIter,      \* iterations of the running page loop
  rsCount      \* count returned by scanIcp

rsVars == <<rsPc, rsTried, rsResult, rsGot, rsTx, rsIter, rsCount>>

VARIABLES
  \* ---- SpecPaging: one paginated fetch of the REST scanners
  pgFn,        \* the function: fetchByAccount, fetchGlobalFallback, fetchViaRosetta,
               \* icrcFetchByAccount (api_scanner.ts) or the earlier REST scanner's
               \* fetchIcpTxByAccountHex, fetchIcpTxByAccountHexFallback
  pgServer,    \* "honest": pages of the ledger's list; "endless": always a full page and a next
  pgKinds,     \* the account's transactions, oldest first: "in" | "out" | "self"
  pgLoop,      \* the loop running: "v2" | "v1" | "v2from" | "v2to" | "v1from" | "v1to" |
               \* "rosetta" | "icrc", or "done" | "thrown" | "written"
  pgIter,      \* iterations of the running loop
  pgPos,       \* items the running loop's cursor / offset has passed
  pgOut,       \* transactions / out: the ids pushed so far
  pgReq,       \* per loop: requests issued
  pgCsv        \* ids of the rows appended to the CSV file

pgVars == <<pgFn, pgServer, pgKinds, pgLoop, pgIter, pgPos, pgOut, pgReq, pgCsv>>

vars == <<sgVars, clVars, scVars, sqVars, fnVars, rnVars, rsVars, pgVars>>

\* ------------------------------------------------------------------ bounds
MaxLogLength == 6
MaxBlocksBound == 4
MaxPage == 3
MaxMs == 5
MaxChain == 3
MaxScanPage == 3
MaxConc == 2
ArchiveSpan == 1
MaxAmount == 1100
MaxDecimals == 4
RestLimit == 2
MaxRestIter == 2
MaxRows == 1
MaxRuns == 2
MaxTx == 3
MaxFlows == 2

\* ------------------------------------------------------------ helpers
Min(a, b) == IF a < b THEN a ELSE b
Max(a, b) == IF a > b THEN a ELSE b

\* ------------------------------------------------------ scan window
\* startIndex = endIndex > MAX_BLOCKS_PER_LEDGER ? endIndex - MAX_BLOCKS_PER_LEDGER : 0
ScanStart(endIndex, maxBlocks) ==
  IF endIndex > maxBlocks THEN endIndex - maxBlocks ELSE 0

SegLengthWhole(cursor, startIndex, page) == cursor - startIndex + 1

\* const length = BigInt(Math.min(page, Number(cursor - startIndex + 1n)))
SegLength(cursor, startIndex, page) == Min(page, cursor - startIndex + 1)

NextCursorSkip(start) == start - 2

\* cursor = start - 1n
NextCursor(start) == start - 1

RECURSIVE BuildFrom(_, _, _, _)
BuildFrom(cursor, startIndex, page, idx) ==
  IF cursor < startIndex THEN <<>>
  ELSE LET length == SegLength(cursor, startIndex, page)
           start == cursor - (length - 1)
       IN  <<[start |-> start, length |-> length, idx |-> idx]>> \o
           (IF start = 0 THEN <<>>
            ELSE BuildFrom(NextCursor(start), startIndex, page, idx + 1))

buildSegments(startIndex, endIndex, page) == BuildFrom(endIndex, startIndex, page, 0)

\* ------------------------------------------------------ tagged values
\* A decoded ICRC-3 Value is [tag, val]: Blob (val a sequence of bytes), Text
\* (a string), Nat (a number), Array (a sequence of Values), Map (a sequence
\* of <<key, Value>>).  NullV is null / undefined.
NullV == [tag |-> "Null", val |-> <<>>]
BlobV(bytes) == [tag |-> "Blob", val |-> bytes]
TextV(s) == [tag |-> "Text", val |-> s]
NatV(n) == [tag |-> "Nat", val |-> n]
ArrayV(seq) == [tag |-> "Array", val |-> seq]
MapV(entries) == [tag |-> "Map", val |-> entries]

\* const entry = map.find(([k]) => k === key); return entry ? entry[1] : null
extractValue(value, key) ==
  IF value.tag # "Map" THEN NullV
  ELSE LET hits == {i \in 1..Len(value.val) : value.val[i][1] = key}
       IN  IF hits = {} THEN NullV
           ELSE value.val[CHOOSE i \in hits : \A j \in hits : i <= j][2]

\* if (!value || v.Nat === undefined) return 0n
extractNat(value) == IF value.tag = "Nat" THEN value.val ELSE 0

\* if (!value || !v.Blob) return []
extractBlob(value) == IF value.tag = "Blob" THEN value.val ELSE <<>>

\* Text, else the decimal text of a Nat, else ""
extractText(value) ==
  IF value.tag = "Text" THEN value.val
  ELSE IF value.tag = "Nat" THEN ToString(value.val)
  ELSE IF value.tag = "Int" THEN ToString(value.val)
  ELSE ""

\* ------------------------------------------------------ accounts
\* extractAccount's result: null, an Account, or an exception leaving the function.
NullAcct == [kind |-> "null", owner |-> <<>>, sub |-> <<>>]
ThrownAcct == [kind |-> "throw", owner |-> <<>>, sub |-> <<>>]
Acct(owner, sub) == [kind |-> "acct", owner |-> owner, sub |-> sub]

\* Principal.fromUint8Array over the bytes of a principal: a principal holds
\* at most 29 bytes; the call is wrapped in try/catch for blobs that are none.
PrincipalBytesOk(bytes) == Len(bytes) <= 29

OnPrincipalErrorRethrow == ThrownAcct

\* catch { return null; }
OnPrincipalError == NullAcct

\* subaccount: sub?.length ? sub : null   (<<>> stands for null)
SubOrNull(sub) == sub

\* Map form: { owner: Blob, subaccount: opt Blob }
extractAccountMap(value) ==
  LET ownerBlob == extractBlob(extractValue(value, "owner"))
      sub == extractBlob(extractValue(value, "subaccount"))
  IN  IF Len(ownerBlob) = 0 THEN NullAcct
      ELSE IF ~PrincipalBytesOk(ownerBlob) THEN OnPrincipalError
      ELSE Acct(ownerBlob, SubOrNull(sub))

\* Array form: [ownerBlob, subaccountBlob?]
extractAccountArray(value) ==
  LET arr == value.val
  IN  IF Len(arr) >= 1 /\ arr[1].tag = "Blob"
      THEN IF ~PrincipalBytesOk(arr[1].val) THEN OnPrincipalError
           ELSE Acct(arr[1].val,
                     IF Len(arr) >= 2 /\ arr[2].tag = "Blob" THEN SubOrNull(arr[2].val)
                     ELSE <<>>)
      ELSE NullAcct

extractAccount(value) ==
  IF value.tag = "Null" THEN NullAcct
  ELSE IF value.tag = "Map" THEN extractAccountMap(value)
  ELSE IF value.tag = "Array" THEN extractAccountArray(value)
  ELSE NullAcct

AllZeroBytesFirstOnly(sa) == \A i \in 1..Min(1, Len(sa)) : sa[i] = 0

\* sa.every((b) => b === 0)
AllZeroBytes(sa) == \A i \in 1..Len(sa) : sa[i] = 0

\* treat 32 zero bytes as null
normalizeSub(sa) ==
  IF Len(sa) = 0 THEN <<>>
  ELSE IF Len(sa) = 32 /\ AllZeroBytes(sa) THEN <<>>
  ELSE sa

\* owner.toText() is an injective encoding of the principal's bytes
PrincipalText(owner) == <<"principal", owner>>

eqAccount(a, b) ==
  IF a.kind # "acct" THEN FALSE
  ELSE IF PrincipalText(a.owner) # PrincipalText(b.owner) THEN FALSE
  ELSE LET sa == normalizeSub(a.sub)
           sb == normalizeSub(b.sub)
       IN  IF sa = <<>> /\ sb = <<>> THEN TRUE
           ELSE IF (sa = <<>>) # (sb = <<>>) \/ Len(sa) # Len(sb) THEN FALSE
           ELSE \A i \in 1..Len(sa) : sa[i] = sb[i]

\* ------------------------------------------------------ block handlers
NanosPerMs == 1000000

\* A timestamp field: absent (undefined) or a count of nanoseconds.
NoTimestamp == [has |-> FALSE, nanos |-> 0]
Timestamp(n) == [has |-> TRUE, nanos |-> n]

\* n64ToMillis: null (has = FALSE) or Number(BigInt(nanos) / 1_000_000n)
n64ToMillis(t) == IF t.has THEN [has |-> TRUE, ms |-> t.nanos \div NanosPerMs]
                  ELSE [has |-> FALSE, ms |-> 0]

\* const [FROM_MS, TO_MS] = _start <= _end ? [_start, _end] : [_end, _start]
WindowOf(startMs, endMs) ==
  IF startMs <= endMs THEN [fromMs |-> startMs, toMs |-> endMs]
  ELSE [fromMs |-> endMs, toMs |-> startMs]

FROM_TS(cfg) == cfg.fromMs * NanosPerMs
TO_TS(cfg) == cfg.toMs * NanosPerMs

\* JavaScript truthiness of a number | null
TruthyMs(ts) == ts.has /\ ts.ms # 0

\* if (ts && (ts < FROM_MS || ts > TO_MS)) return;
IcpOutsideWindow(ts, cfg) == TruthyMs(ts) /\ (ts.ms < cfg.fromMs \/ ts.ms > cfg.toMs)

\* if (ts < FROM_TS || ts > TO_TS) return;
IcrcOutsideWindow(ts, cfg) == ts < FROM_TS(cfg) \/ ts > TO_TS(cfg)

\* if (from && to) self; else if (to) inflow; else if (from) outflow
Direction(fromMatches, toMatches) ==
  IF fromMatches /\ toMatches THEN "self"
  ELSE IF toMatches THEN "inflow"
  ELSE IF fromMatches THEN "outflow"
  ELSE "none"

NoRows == <<>>
Row(token, direction, date, from, to, index) ==
  <<[token |-> token, direction |-> direction, date |-> date,
     from |-> from, to |-> to, index |-> index]>>

\* date_iso = ts ? new Date(ts).toISOString() : ""
DateIso(ts) == IF TruthyMs(ts) THEN [has |-> TRUE, ms |-> ts.ms] ELSE [has |-> FALSE, ms |-> 0]

\* b.toString(16): one hexadecimal digit
HexDigit(n) ==
  CASE n = 10 -> "a" [] n = 11 -> "b" [] n = 12 -> "c"
    [] n = 13 -> "d" [] n = 14 -> "e" [] n = 15 -> "f"
    [] OTHER -> ToString(n)

\* toHex: every byte as two lower-case hexadecimal digits; a string is the
\* sequence of its characters.
RECURSIVE toHex(_)
toHex(bytes) ==
  IF Len(bytes) = 0 THEN <<>>
  ELSE <<HexDigit(Head(bytes) \div 16), HexDigit(Head(bytes) % 16)>> \o toHex(Tail(bytes))

accountIdToHex(accountId) == toHex(accountId)

\* toLowerCase over the characters the model draws
LowerChar(c) ==
  CASE c = "A" -> "a"
    [] c = "B" -> "b"
    [] c = "X" -> "x"
    [] OTHER -> c

LowerSeq(chars) == [i \in 1..Len(chars) |-> LowerChar(chars[i])]

\* const targetHex = icpAccountIdHex.toLowerCase()
TargetHex(cfg) == LowerSeq(cfg.icpAccountIdHex)

\* An ICP block: [timestamp, op, from, to]; op is "None" for an empty
\* opt Operation, else the variant's key; from / to are the operation's
\* account-id bytes (<<>> when the field is missing).
\* handleBlock returns the rows it appends (none or one).
handleBlock(block, blockIndex, cfg) ==
  LET ts == n64ToMillis(block.timestamp)
  IN  IF IcpOutsideWindow(ts, cfg) THEN NoRows
      ELSE IF block.op = "None" THEN NoRows
      ELSE IF block.op # "Transfer" THEN NoRows
      ELSE LET fromHex == accountIdToHex(block.from)
               toHex_ == accountIdToHex(block.to)
               direction == Direction(fromHex = TargetHex(cfg), toHex_ = TargetHex(cfg))
           IN  IF direction = "none" THEN NoRows
               ELSE Row("ICP", direction, DateIso(ts), "", "", blockIndex)

IsTransferOp(opType) == opType = "xfer" \/ opType = "transfer"

\* extractText(tx.op) || extractText(block.btype) || extractText(block.type)
OpTypeOf(block, tx) ==
  IF extractText(extractValue(tx, "op")) # "" THEN extractText(extractValue(tx, "op"))
  ELSE IF extractText(extractValue(block, "btype")) # ""
       THEN extractText(extractValue(block, "btype"))
  ELSE extractText(extractValue(block, "type"))

\* The identities of a block whose decoding was not reached.
NotDecoded == [reached |-> FALSE, from |-> NullAcct, to |-> NullAcct]
Decoded(from, to) == [reached |-> TRUE, from |-> from, to |-> to]

\* handleIcrcBlock's result: the rows it appends, whether it threw, and the
\* identities it decoded.
IcrcResult(rows, thrown, decoded) == [rows |-> rows, thrown |-> thrown, decoded |-> decoded]

handleIcrcBlock(bw, cfg) ==
  LET block == bw.block
      ts == extractNat(extractValue(block, "ts"))
      tx == extractValue(block, "tx")
  IN  IF IcrcOutsideWindow(ts, cfg) THEN IcrcResult(NoRows, FALSE, NotDecoded)
      ELSE IF tx.tag # "Map" THEN IcrcResult(NoRows, FALSE, NotDecoded)
      ELSE IF ~IsTransferOp(OpTypeOf(block, tx)) THEN IcrcResult(NoRows, FALSE, NotDecoded)
      ELSE LET from == extractAccount(extractValue(tx, "from"))
               to == extractAccount(extractValue(tx, "to"))
           IN  IF from.kind = "throw" \/ to.kind = "throw"
               THEN IcrcResult(NoRows, TRUE, Decoded(from, to))
               ELSE LET direction ==
                          IF from.kind = "acct" /\ to.kind = "acct"
                          THEN Direction(eqAccount(from, cfg.wallet), eqAccount(to, cfg.wallet))
                          ELSE "none"
                    IN  IF direction = "none" THEN IcrcResult(NoRows, FALSE, Decoded(from, to))
                        ELSE IcrcResult(
                               Row("ICRC", direction, [has |-> TRUE, ms |-> ts \div NanosPerMs],
                                   PrincipalText(from.owner), PrincipalText(to.owner), bw.id),
                               FALSE, Decoded(from, to))

\* ------------------------------------------------------ REST scanner mapping
\* An optional string is [has, s], s a sequence of characters.
AbsentStr == [has |-> FALSE, s |-> <<>>]
Str(chars) == [has |-> TRUE, s |-> chars]

\* toLowerCase over the operation names the model draws
ToLowerStr(s) ==
  CASE s = "Transfer" -> "transfer"
    [] s = "MINT" -> "mint"
    [] s = "Burn" -> "burn"
    [] OTHER -> s

\* .replace(/^0x/, "")
Strip0x(chars) ==
  IF Len(chars) >= 2 /\ chars[1] = "0" /\ chars[2] = "x"
  THEN SubSeq(chars, 3, Len(chars))
  ELSE chars

\* /^0+$/
AllZeroChars(chars) == Len(chars) > 0 /\ \A i \in 1..Len(chars) : chars[i] = "0"

\* utils.normalizeSubaccount
normalizeSubaccount(sub) ==
  LET normalized == LowerSeq(Strip0x(IF sub.has THEN sub.s ELSE <<>>))
  IN  IF Len(normalized) = 0 \/ AllZeroChars(normalized) THEN <<>> ELSE normalized

\* matching.equalSubaccounts
equalSubaccounts(a, b) == normalizeSubaccount(a) = normalizeSubaccount(b)

\* matching.matchesIcrcAccount(account, walletOwner, walletSubHex?)
matchesIcrcAccount(account, walletOwner, walletSubHex, strict) ==
  IF ~account.has \/ account.owner = "" \/ account.owner # walletOwner THEN FALSE
  ELSE IF ~strict THEN TRUE
  ELSE equalSubaccounts(account.sub, walletSubHex)

\* JavaScript truthiness of a string | undefined
TruthyStr(x) == x.has /\ Len(x.s) > 0

\* matching.passesStrictSubaccountFilter(tx, walletSubHex)
passesStrictSubaccountFilter(tx, walletSubHex, cfg) ==
  IF ~cfg.strict \/ ~TruthyStr(walletSubHex) THEN TRUE
  ELSE LET normalizedWallet == normalizeSubaccount(walletSubHex)
           fromMatches == /\ tx.from.has
                          /\ tx.from.owner = cfg.principal
                          /\ normalizeSubaccount(tx.from.sub) = normalizedWallet
           toMatches == /\ tx.to.has
                        /\ tx.to.owner = cfg.principal
                        /\ normalizeSubaccount(tx.to.sub) = normalizedWallet
       IN  fromMatches \/ toMatches

IsRestTransferOp(operation) ==
  operation \in {"transfer", "1xfer", "icrc1_transfer", "xfer"}

\* csvMapping.fromIcrcTransaction calls matchesIcrcAccount(tx.from, config.wallet.principal):
\* the walletSubHex parameter is left undefined.
MappingWalletSub(cfg) == AbsentStr

\* csvMapping.fromIcrcTransaction: the row, or no row for null
fromIcrcTransaction(tx, cfg) ==
  IF ~IsRestTransferOp(ToLowerStr(tx.op)) THEN NoRows
  ELSE LET fromMatches == matchesIcrcAccount(tx.from, cfg.principal, MappingWalletSub(cfg), cfg.strict)
           toMatches == matchesIcrcAccount(tx.to, cfg.principal, MappingWalletSub(cfg), cfg.strict)
           direction == Direction(fromMatches, toMatches)
       IN  IF direction = "none" THEN NoRows
           ELSE Row("ICRC", direction, [has |-> TRUE, ms |-> tx.timestamp],
                    IF tx.from.has THEN tx.from.owner ELSE "",
                    IF tx.to.has THEN tx.to.owner ELSE "", tx.id)

\* csvMapping.fromIcpTransaction
fromIcpTransaction(tx, cfg) ==
  LET operation == ToLowerStr(tx.transfer_type)
      fromHex == LowerSeq(tx.from)
      toHex_ == LowerSeq(tx.to)
      accountIdHex == LowerSeq(cfg.icpAccountIdHex)
      direction ==
        IF operation = "mint" THEN "mint"
        ELSE IF operation = "burn" THEN "burn"
        ELSE IF operation = "transfer"
             THEN Direction(fromHex = accountIdHex, toHex_ = accountIdHex)
        ELSE "none"
  IN  IF direction = "none" THEN NoRows
      ELSE Row("ICP", direction, [has |-> TRUE, ms |-> tx.created_at * 1000],
               fromHex, toHex_, tx.block_height)

\* ------------------------------------------------------ SpecClassify inputs
WalletOwner == <<1>>
OtherOwner == <<2>>
Zero32 == [i \in 1..32 |-> 0]
One32 == [i \in 1..32 |-> IF i = 32 THEN 1 ELSE 0]
LongBlob == [i \in 1..30 |-> 7]

AcctSamples ==
  {"mapW", "mapWzero", "mapWsub", "mapO", "mapNoOwner", "mapOwnerText",
   "mapOwnerEmpty", "mapOwnerLong", "arrW", "arrWsub", "arrEmpty", "arrLong",
   "text", "absent"}

\* The from / to value of a block's tx map, by sample name.
AcctValue(name) ==
  CASE name = "mapW" -> MapV(<< <<"owner", BlobV(WalletOwner)>> >>)
    [] name = "mapWzero" ->
         MapV(<< <<"owner", BlobV(WalletOwner)>>, <<"subaccount", BlobV(Zero32)>> >>)
    [] name = "mapWsub" ->
         MapV(<< <<"owner", BlobV(WalletOwner)>>, <<"subaccount", BlobV(One32)>> >>)
    [] name = "mapO" -> MapV(<< <<"owner", BlobV(OtherOwner)>> >>)
    [] name = "mapNoOwner" -> MapV(<< <<"subaccount", BlobV(One32)>> >>)
    [] name = "mapOwnerText" -> MapV(<< <<"owner", TextV("w")>> >>)
    [] name = "mapOwnerEmpty" -> MapV(<< <<"owner", BlobV(<<>>)>> >>)
    [] name = "mapOwnerLong" -> MapV(<< <<"owner", BlobV(LongBlob)>> >>)
    [] name = "arrW" -> ArrayV(<<BlobV(WalletOwner)>>)
    [] name = "arrWsub" -> ArrayV(<<BlobV(WalletOwner), BlobV(One32)>>)
    [] name = "arrEmpty" -> ArrayV(<<>>)
    [] name = "arrLong" -> ArrayV(<<BlobV(LongBlob)>>)
    [] name = "text" -> TextV("w")
    [] OTHER -> NullV

OpSamples == {"op_xfer", "type_transfer", "op_mint", "op_burn", "no_tx"}

Entry(key, value) == IF value.tag = "Null" THEN <<>> ELSE << <<key, value>> >>

\* An ICRC-3 block { ts, tx: { op, from, to, amt }, type } built from samples.
IcrcBlock(ts, opSample, fromV, toV) ==
  MapV( (IF ts.has THEN << <<"ts", NatV(ts.nanos)>> >> ELSE <<>>)
        \o (IF opSample = "type_transfer" THEN << <<"type", TextV("transfer")>> >> ELSE <<>>)
        \o (IF opSample = "no_tx" THEN <<>>
            ELSE << <<"tx",
                      MapV( (IF opSample = "op_xfer" THEN << <<"op", TextV("xfer")>> >>
                             ELSE IF opSample = "op_mint" THEN << <<"op", TextV("mint")>> >>
                             ELSE IF opSample = "op_burn" THEN << <<"op", TextV("burn")>> >>
                             ELSE <<>>)
                            \o Entry("from", fromV) \o Entry("to", toV)
                            \o << <<"amt", NatV(5)>> >> )>> >>) )

\* Timestamps around the window: absent, and each millisecond's first and last nanosecond.
TsSamples ==
  {NoTimestamp} \cup {Timestamp(ms * NanosPerMs + off) : ms \in 0..MaxMs, off \in {0, NanosPerMs - 1}}

\* START_DATE / END_DATE in milliseconds, in either order
Windows == {WindowOf(s, e) : s \in {0, 2}, e \in {1, 4}}

RestAcctSamples ==
  {"none", "W", "W00", "W01", "W0x01", "W0A", "O", "O01"}

RestAcct(name) ==
  CASE name = "W" -> [has |-> TRUE, owner |-> "w", sub |-> AbsentStr]
    [] name = "W00" -> [has |-> TRUE, owner |-> "w", sub |-> Str(<<"0", "0">>)]
    [] name = "W01" -> [has |-> TRUE, owner |-> "w", sub |-> Str(<<"0", "1">>)]
    [] name = "W0x01" -> [has |-> TRUE, owner |-> "w", sub |-> Str(<<"0", "x", "0", "1">>)]
    [] name = "W0A" -> [has |-> TRUE, owner |-> "w", sub |-> Str(<<"0", "A">>)]
    [] name = "O" -> [has |-> TRUE, owner |-> "o", sub |-> AbsentStr]
    [] name = "O01" -> [has |-> TRUE, owner |-> "o", sub |-> Str(<<"0", "1">>)]
    [] OTHER -> [has |-> FALSE, owner |-> "", sub |-> AbsentStr]

\* WALLET_SUBACCOUNT_HEX after env.getHex: lower case, no 0x prefix
WalletSubHexSamples == {Str(<<>>), Str(<<"0", "0">>), Str(<<"0", "1">>), Str(<<"0", "a">>)}

\* ------------------------------------------------------ pLimit
\* pLimit(max): let active = 0; const queue = []
NewLimiter == [active |-> 0, queue |-> <<>>]

AdmitsOneMore(active, max) == active <= max

\* if (active < max) run(); else queue.push(run);
Admits(active, max) == active < max

\* limit(fn): the limiter afterwards and the task started, if any; run() does active++
Submit(lim, max, task) ==
  IF Admits(lim.active, max)
  THEN [lim |-> [active |-> lim.active + 1, queue |-> lim.queue], started |-> <<task>>]
  ELSE [lim |-> [active |-> lim.active, queue |-> Append(lim.queue, task)], started |-> <<>>]

\* tasks.map((t) => limit(...)): the calls happen in order, synchronously
RECURSIVE SubmitAll(_, _, _)
SubmitAll(lim, max, tasks) ==
  IF tasks = <<>> THEN [lim |-> lim, started |-> <<>>]
  ELSE LET first == Submit(lim, max, Head(tasks))
           rest == SubmitAll(first.lim, max, Tail(tasks))
       IN  [lim |-> rest.lim, started |-> first.started \o rest.started]

LimiterNextKeepsQueue(lim) ==
  [lim |-> [active |-> lim.active - 1, queue |-> lim.queue], started |-> <<>>]

\* next(): active--; if (queue.length) queue.shift()()  -- and run() does active++
LimiterNext(lim) ==
  IF Len(lim.queue) > 0
  THEN [lim |-> [active |-> (lim.active - 1) + 1, queue |-> Tail(lim.queue)],
        started |-> <<Head(lim.queue)>>]
  ELSE [lim |-> [active |-> lim.active - 1, queue |-> lim.queue], started |-> <<>>]

SeqRange(seq) == {seq[k] : k \in 1..Len(seq)}

\* ------------------------------------------------------ the ledger
\* Block indices lo..hi in order (empty when hi < lo).
Indices(lo, hi) == [k \in 1..(hi - lo + 1) |-> lo + (k - 1)]

\* The archived part lo..hi of a request, one range per archive span.
RECURSIVE ArchivedRanges(_, _)
ArchivedRanges(lo, hi) ==
  IF lo > hi THEN <<>>
  ELSE LET last == Min(hi, ((lo \div ArchiveSpan) + 1) * ArchiveSpan - 1)
       IN  <<[start |-> lo, length |-> last - lo + 1]>> \o ArchivedRanges(last + 1, hi)

\* The ledger's answer to query_blocks / icrc3_get_blocks({start, length}):
\* the blocks it still holds (named by their index in the chain), the index
\* of the first of them, and the ranges to ask the archives for.
QueryBlocks(start, length, boundary) ==
  LET first == Max(start, boundary)
  IN  [first_block_index |-> first,
       blocks |-> Indices(first, start + length - 1),
       archived_blocks |-> ArchivedRanges(start, Min(start + length - 1, boundary - 1))]

FirstIdxIgnored(res, start) == start

\* const firstIdx = res?.first_block_index ?? start
FirstIdx(res, start) == res.first_block_index

\* fetchIcpBlocks: { index: firstIdx + BigInt(i), block: blocks[i] };
\* fetchIcrc3Blocks: out.push(...blocks), the id is the ledger's
MainOut(ledger, res, start) ==
  [k \in 1..Len(res.blocks) |->
     [index |-> IF ledger = "ICP" THEN FirstIdx(res, start) + (k - 1) ELSE res.blocks[k],
      content |-> res.blocks[k], src |-> "main"]]

\* fetchIcpBlocks: { index: BigInt(ar.start) + BigInt(i), block: arr[i] };
\* fetchIcrc3Blocks: out.push(...aBlocks)
ArchiveOut(ledger, ar, blocks) ==
  [k \in 1..Len(blocks) |->
     [index |-> IF ledger = "ICP" THEN ar.start + (k - 1) ELSE blocks[k],
      content |-> blocks[k], src |-> "arch"]]

\* ------------------------------------------------------ the sanity checks' verdicts
Verdict(wouldEmit, direction, inWindow, thrown) ==
  [wouldEmit |-> wouldEmit, direction |-> direction, inWindow |-> inWindow, thrown |-> thrown]
NoVerdict == Verdict(FALSE, "none", FALSE, FALSE)

\* typeof timestampMs === "number" && timestampMs >= FROM_MS && timestampMs <= TO_MS
VerdictIcpInWindow(ts, cfg) == ts.has /\ ts.ms >= cfg.fromMs /\ ts.ms <= cfg.toMs

\* wouldEmit = !!direction && inWindow
wouldCaptureIcpBlock(block, cfg) ==
  LET timestampMs == n64ToMillis(block.timestamp)
      inWindow == VerdictIcpInWindow(timestampMs, cfg)
      direction ==
        IF block.op = "Transfer"
        THEN Direction(accountIdToHex(block.from) = LowerSeq(cfg.icpAccountIdHex),
                       accountIdToHex(block.to) = LowerSeq(cfg.icpAccountIdHex))
        ELSE "none"
  IN  Verdict(direction # "none" /\ inWindow, direction, inWindow, FALSE)

\* const inWindow = ts >= FROM_TS && ts <= TO_TS; wouldEmit = !!direction && inWindow
wouldCaptureIcrc3Block(blockWrap, cfg) ==
  LET block == blockWrap.block
      ts == extractNat(extractValue(block, "ts"))
      inWindow == ts >= FROM_TS(cfg) /\ ts <= TO_TS(cfg)
      tx == extractValue(block, "tx")
  IN  IF tx.tag = "Map" /\ IsTransferOp(OpTypeOf(block, tx))
      THEN LET from == extractAccount(extractValue(tx, "from"))
               to == extractAccount(extractValue(tx, "to"))
               direction ==
                 IF from.kind = "acct" /\ to.kind = "acct"
                 THEN Direction(eqAccount(from, cfg.wallet), eqAccount(to, cfg.wallet))
                 ELSE "none"
           IN  IF from.kind = "throw" \/ to.kind = "throw"
               THEN Verdict(FALSE, "none", inWindow, TRUE)
               ELSE Verdict(direction # "none" /\ inWindow, direction, inWindow, FALSE)
      ELSE Verdict(FALSE, "none", inWindow, FALSE)

\* ------------------------------------------------------ idle values
DefaultWallet == Acct(WalletOwner, <<>>)

ClCfg(window, icpAccountIdHex, wallet, strict, subaccountHex) ==
  [fromMs |-> window.fromMs, toMs |-> window.toMs,
   icpAccountIdHex |-> icpAccountIdHex,
   wallet |-> wallet,
   principal |-> "w", strict |-> strict, subaccountHex |-> subaccountHex]

IdleCfg == ClCfg(WindowOf(0, 1), <<"a", "a">>, DefaultWallet, FALSE, Str(<<>>))

ClIdle ==
  /\ clPc = "idle" /\ clSite = "none" /\ clCfg = IdleCfg
  /\ clInput = <<>> /\ clDecoded = NotDecoded /\ clRows = <<>> /\ clThrown = FALSE
  /\ clVerdict = NoVerdict

ScIdle ==
  /\ scPc = "idle" /\ scLedger = "ICP" /\ scLength = 0 /\ scBoundary = 0
  /\ scConc = 1 /\ scArchConc = 1 /\ scPage = 1 /\ scMaxBlocks = 1
  /\ scSegs = <<>> /\ scSegState = <<>> /\ scFetches = <<>> /\ scOut = <<>>
  /\ scArch = <<>> /\ scLimit = NewLimiter /\ scLimitArchive = NewLimiter
  /\ scHandled = <<>> /\ scRows = <<>> /\ scErrors = <<>>

SqIdle ==
  /\ sqPc = "idle" /\ sqLength = 0 /\ sqBoundary = 0 /\ sqPage = 1 /\ sqMaxBlocks = 1
  /\ sqCursor = 0 /\ sqScanned = 0 /\ sqFetched = <<>> /\ sqRows = <<>> /\ sqErrors = 0

FnIdle ==
  /\ fnPc = "idle" /\ fnName = "none" /\ fnIn = <<>> /\ fnOut = <<>>

Ledgers == {"ICP", "ckBTC"}
SanityChecks == 3

NoFile == [exists |-> FALSE, lines |-> <<>>]

RnIdle ==
  /\ rnVariant = "block" /\ rnPc = "idle" /\ rnRun = 0
  /\ rnChecks = [i \in 1..SanityChecks |-> "pending"]
  /\ rnMeta = [i \in 1..SanityChecks |-> "none"]
  /\ rnFile = NoFile /\ rnFile0 = NoFile
  /\ rnMatching = [l \in Ledgers |-> 0]
  /\ rnScan = [l \in Ledgers |-> "idle"]
  /\ rnNext = [l \in Ledgers |-> 1]
  /\ rnRows = [l \in Ledgers |-> 0]
  /\ rnLog = {} /\ rnTotal = 0

RestSources == {"rosetta", "v2", "v1", "global"}

RsIdle ==
  /\ rsPc = "idle" /\ rsTried = <<>>
  /\ rsResult = [src \in RestSources |-> "untried"]
  /\ rsGot = [src \in RestSources |-> 0]
  /\ rsTx = 0 /\ rsIter = 0 /\ rsCount = 0

PgLoops == {"v2", "v1", "v2from", "v2to", "v1from", "v1to", "rosetta", "icrc"}

PgIdle ==
  /\ pgFn = "none" /\ pgServer = "honest" /\ pgKinds = <<>> /\ pgLoop = "idle"
  /\ pgIter = 0 /\ pgPos = 0 /\ pgOut = <<>>
  /\ pgReq = [l \in PgLoops |-> 0] /\ pgCsv = <<>>

\* ------------------------------------------------------ SpecSegments
SgIdle ==
  /\ sgPc = "idle" /\ sgLedger = "ICP" /\ sgLength = 0
  /\ sgMaxBlocks = 1 /\ sgPage = 1 /\ sgSegs = <<>>

SgInit ==
  /\ ClIdle /\ ScIdle /\ SqIdle /\ FnIdle /\ RnIdle /\ RsIdle /\ PgIdle
  /\ sgPc = "input"
  /\ sgLedger \in {"ICP", "ICRC3"}
  /\ sgLength \in 0..MaxLogLength
  /\ sgMaxBlocks \in 1..MaxBlocksBound
  /\ sgPage \in 1..MaxPage
  /\ sgSegs = <<>>

\* scanIcpLedger: endIndex, startIndex, segs
WindowIcp ==
  /\ sgPc = "input" /\ sgLedger = "ICP"
  /\ LET endIndex == sgLength - 1
         startIndex == ScanStart(endIndex, sgMaxBlocks)
     IN  sgSegs' = buildSegments(startIndex, endIndex, sgPage)
  /\ sgPc' = "built"
  /\ UNCHANGED <<sgLedger, sgLength, sgMaxBlocks, sgPage>>
  /\ UNCHANGED <<clVars, scVars, sqVars, fnVars, rnVars, rsVars, pgVars>>

\* scanIcrcLedger: an empty log returns before the window is computed
WindowIcrcEmpty ==
  /\ sgPc = "input" /\ sgLedger = "ICRC3" /\ sgLength = 0
  /\ sgSegs' = <<>>
  /\ sgPc' = "built"
  /\ UNCHANGED <<sgLedger, sgLength, sgMaxBlocks, sgPage>>
  /\ UNCHANGED <<clVars, scVars, sqVars, fnVars, rnVars, rsVars, pgVars>>

\* scanIcrcLedger: endIndex, scanStart, segs
WindowIcrc ==
  /\ sgPc = "input" /\ sgLedger = "ICRC3" /\ sgLength # 0
  /\ LET endIndex == sgLength - 1
         scanStart == ScanStart(endIndex, sgMaxBlocks)
     IN  sgSegs' = buildSegments(scanStart, endIndex, sgPage)
  /\ sgPc' = "built"
  /\ UNCHANGED <<sgLedger, sgLength, sgMaxBlocks, sgPage>>
  /\ UNCHANGED <<clVars, scVars, sqVars, fnVars, rnVars, rsVars, pgVars>>

SgNext == WindowIcp \/ WindowIcrcEmpty \/ WindowIcrc

SpecSegments == SgInit /\ [][SgNext]_vars

\* ------------------------------------------------------ SpecClassify steps
\* One ICP ledger block handed to handleBlock
ClInitIcpBlock ==
  /\ clSite = "icpBlock"
  /\ \E w \in Windows, hex \in {<<"a", "a">>, <<"b", "b">>} :
       clCfg = ClCfg(w, hex, DefaultWallet, FALSE, Str(<<>>))
  /\ \E ts \in TsSamples, op \in {"None", "Transfer", "Mint", "Burn", "Approve"},
        from \in {<<170>>, <<187>>, <<>>}, to \in {<<170>>, <<187>>, <<>>} :
       clInput = [index |-> 7, timestamp |-> ts, op |-> op, from |-> from, to |-> to]

\* One ICRC-3 block handed to handleIcrcBlock
ClInitIcrc3Block ==
  /\ clSite = "icrc3Block"
  /\ \E w \in Windows, sub \in {<<>>, Zero32, One32} :
       clCfg = ClCfg(w, <<"a", "a">>, Acct(WalletOwner, sub), FALSE, Str(<<>>))
  /\ \E ts \in TsSamples, op \in OpSamples, from \in AcctSamples, to \in AcctSamples :
       clInput = [id |-> 7, ts |-> ts, opSample |-> op, fromSample |-> from, toSample |-> to,
                  block |-> IcrcBlock(ts, op, AcctValue(from), AcctValue(to))]

\* One transaction of the ICP REST API
ClInitRestIcp ==
  /\ clSite = "restIcp"
  /\ clCfg = ClCfg(WindowOf(0, 1), <<"a", "a">>, DefaultWallet, FALSE, Str(<<>>))
  /\ \E op \in {"transfer", "Transfer", "mint", "MINT", "burn", "Burn", "approve", ""},
        from \in {<<"a", "a">>, <<"A", "A">>, <<"b", "b">>, <<>>},
        to \in {<<"a", "a">>, <<"A", "A">>, <<"b", "b">>, <<>>} :
       clInput = [block_height |-> 7, created_at |-> 3, transfer_type |-> op,
                  from |-> from, to |-> to]

\* One transaction of the ICRC REST API
ClInitRestIcrc ==
  /\ clSite = "restIcrc"
  /\ \E strict \in BOOLEAN, sub \in WalletSubHexSamples :
       clCfg = ClCfg(WindowOf(0, 1), <<"a", "a">>, DefaultWallet, strict, sub)
  /\ \E op \in {"transfer", "xfer", "1xfer", "Transfer", "mint", "burn", "approve"},
        from \in RestAcctSamples, to \in RestAcctSamples :
       clInput = [id |-> 7, timestamp |-> 3, op |-> op, fromSample |-> from, toSample |-> to,
                  from |-> RestAcct(from), to |-> RestAcct(to)]

ClInit ==
  /\ SgIdle /\ ScIdle /\ SqIdle /\ FnIdle /\ RnIdle /\ RsIdle /\ PgIdle
  /\ clPc = "input" /\ clDecoded = NotDecoded /\ clRows = <<>> /\ clThrown = FALSE
  /\ clVerdict = NoVerdict
  /\ \/ ClInitIcpBlock
     \/ ClInitIcrc3Block
     \/ ClInitRestIcp
     \/ ClInitRestIcrc

\* scanIcpLedger: for (const { index, block } of fetched) handleBlock(block, index)
HandleBlock ==
  /\ clPc = "input" /\ clSite = "icpBlock"
  /\ clRows' = clRows \o handleBlock(clInput, clInput.index, clCfg)
  /\ clPc' = "handled"
  /\ UNCHANGED <<clSite, clCfg, clInput, clDecoded, clThrown, clVerdict>>
  /\ UNCHANGED <<sgVars, scVars, sqVars, fnVars, rnVars, rsVars, pgVars>>

\* scanIcrcLedger: for (const bw of fetched) handleIcrcBlock(bw)
HandleIcrcBlock ==
  /\ clPc = "input" /\ clSite = "icrc3Block"
  /\ LET r == handleIcrcBlock(clInput, clCfg)
     IN  /\ clRows' = clRows \o r.rows
         /\ clThrown' = r.thrown
         /\ clDecoded' = r.decoded
  /\ clPc' = "handled"
  /\ UNCHANGED <<clSite, clCfg, clInput, clVerdict>>
  /\ UNCHANGED <<sgVars, scVars, sqVars, fnVars, rnVars, rsVars, pgVars>>

\* scanner.scanIcp: row = fromIcpTransaction(tx); if (row) appendRow
ScanIcpTx ==
  /\ clPc = "input" /\ clSite = "restIcp"
  /\ clRows' = clRows \o fromIcpTransaction(clInput, clCfg)
  /\ clPc' = "handled"
  /\ UNCHANGED <<clSite, clCfg, clInput, clDecoded, clThrown, clVerdict>>
  /\ UNCHANGED <<sgVars, scVars, sqVars, fnVars, rnVars, rsVars, pgVars>>

\* scanner.scanIcrcToken: a transaction the strict filter rejects is skipped
ScanIcrcTxFiltered ==
  /\ clPc = "input" /\ clSite = "restIcrc"
  /\ ~passesStrictSubaccountFilter(clInput, clCfg.subaccountHex, clCfg)
  /\ clPc' = "handled"
  /\ UNCHANGED <<clSite, clCfg, clInput, clDecoded, clRows, clThrown, clVerdict>>
  /\ UNCHANGED <<sgVars, scVars, sqVars, fnVars, rnVars, rsVars, pgVars>>

\* scanner.scanIcrcToken: row = fromIcrcTransaction(tx); if (row) appendRow
ScanIcrcTx ==
  /\ clPc = "input" /\ clSite = "restIcrc"
  /\ passesStrictSubaccountFilter(clInput, clCfg.subaccountHex, clCfg)
  /\ clRows' = clRows \o fromIcrcTransaction(clInput, clCfg)
  /\ clPc' = "handled"
  /\ UNCHANGED <<clSite, clCfg, clInput, clDecoded, clThrown, clVerdict>>
  /\ UNCHANGED <<sgVars, scVars, sqVars, fnVars, rnVars, rsVars, pgVars>>

\* sanityCheck_ICP: verdict = wouldCaptureIcpBlock(block, icpAccountIdHex, ...),
\* here for the block handleBlock was given
SanityVerdictIcp ==
  /\ clPc = "handled" /\ clSite = "icpBlock"
  /\ clVerdict' = wouldCaptureIcpBlock(clInput, clCfg)
  /\ clPc' = "judged"
  /\ UNCHANGED <<clSite, clCfg, clInput, clDecoded, clRows, clThrown>>
  /\ UNCHANGED <<sgVars, scVars, sqVars, fnVars, rnVars, rsVars, pgVars>>

\* sanityCheck_ckBTC / _ckUSDC / _ckUSDT: verdict = wouldCaptureIcrc3Block(block, wallet, ...),
\* here for the block handleIcrcBlock was given
SanityVerdictIcrc3 ==
  /\ clPc = "handled" /\ clSite = "icrc3Block"
  /\ clVerdict' = wouldCaptureIcrc3Block(clInput, clCfg)
  /\ clPc' = "judged"
  /\ UNCHANGED <<clSite, clCfg, clInput, clDecoded, clRows, clThrown>>
  /\ UNCHANGED <<sgVars, scVars, sqVars, fnVars, rnVars, rsVars, pgVars>>

ClNext ==
  \/ HandleBlock
  \/ HandleIcrcBlock
  \/ ScanIcpTx
  \/ ScanIcrcTxFiltered
  \/ ScanIcrcTx
  \/ SanityVerdictIcp
  \/ SanityVerdictIcrc3

SpecClassify == ClInit /\ [][ClNext]_vars

\* ------------------------------------------------------ Spec: parallel scan
\* The configuration of the scan: window 0..4 ms, the wallet without subaccount.
ScanCfg == ClCfg(WindowOf(0, 4), <<"a", "a">>, DefaultWallet, FALSE, Str(<<>>))

\* The ledger's blocks, all of millisecond 1: block i is a transfer into the
\* watched account (i % 3 = 0), out of it (i % 3 = 1) or between others.
LedgerIcpBlock(i) ==
  [index |-> i, timestamp |-> Timestamp(NanosPerMs), op |-> "Transfer",
   from |-> IF i % 3 = 1 THEN <<170>> ELSE <<187>>,
   to |-> IF i % 3 = 0 THEN <<170>> ELSE <<187>>]

LedgerIcrcBlock(i) ==
  IcrcBlock(Timestamp(NanosPerMs), "op_xfer",
            AcctValue(IF i % 3 = 1 THEN "mapW" ELSE "mapO"),
            AcctValue(IF i % 3 = 0 THEN "mapW" ELSE "mapO"))

\* handleBlock(block, index) / handleIcrcBlock(bw) on one fetched entry
HandleFetched(ledger, e) ==
  IF ledger = "ICP" THEN handleBlock(LedgerIcpBlock(e.content), e.index, ScanCfg)
  ELSE handleIcrcBlock([id |-> e.index, block |-> LedgerIcrcBlock(e.content)], ScanCfg).rows

\* for (const { index, block } of fetched) handleBlock(block, index)
RECURSIVE HandleAll(_, _)
HandleAll(ledger, fetched) ==
  IF fetched = <<>> THEN <<>>
  ELSE HandleFetched(ledger, Head(fetched)) \o HandleAll(ledger, Tail(fetched))

ScInit ==
  /\ SgIdle /\ ClIdle /\ SqIdle /\ FnIdle /\ RnIdle /\ RsIdle /\ PgIdle
  /\ scPc = "start"
  /\ scLedger \in {"ICP", "ICRC3"}
  /\ scLength \in 0..MaxChain
  /\ scBoundary \in 0..scLength
  /\ scConc \in 1..MaxConc
  /\ scArchConc \in 1..MaxConc
  /\ scPage \in 1..MaxScanPage
  /\ scMaxBlocks \in {1, MaxChain}
  /\ scSegs = <<>> /\ scSegState = <<>> /\ scFetches = <<>> /\ scOut = <<>>
  /\ scArch = <<>> /\ scLimit = NewLimiter /\ scLimitArchive = NewLimiter
  /\ scHandled = <<>> /\ scRows = <<>> /\ scErrors = <<>>

ScOthersUnchanged == UNCHANGED <<sgVars, clVars, sqVars, fnVars, rnVars, rsVars, pgVars>>

\* The chain length query rejects: console.error, return []
ChainLengthFail ==
  /\ scPc = "start"
  /\ scErrors' = Append(scErrors, "length")
  /\ scPc' = "returned"
  /\ UNCHANGED <<scCfgVars, scSegs, scSegState, scFetches, scOut, scArch,
                 scLimit, scLimitArchive, scHandled, scRows>>
  /\ ScOthersUnchanged

\* scanIcrcLedger: if (logLength === 0n) return []
LogEmpty ==
  /\ scPc = "start" /\ scLedger = "ICRC3" /\ scLength = 0
  /\ scPc' = "returned"
  /\ UNCHANGED <<scCfgVars, scSegs, scSegState, scFetches, scOut, scArch,
                 scLimit, scLimitArchive, scHandled, scRows, scErrors>>
  /\ ScOthersUnchanged

\* The window, the segments, the two limiters and segs.map((seg) => limit(...)):
\* the first CONCURRENCY segments issue their main query, the others queue.
StartSegments ==
  /\ scPc = "start" /\ ~(scLedger = "ICRC3" /\ scLength = 0)
  /\ LET endIndex == scLength - 1
         segs == buildSegments(ScanStart(endIndex, scMaxBlocks), endIndex, scPage)
         sub == SubmitAll(NewLimiter, scConc, Indices(1, Len(segs)))
     IN  /\ scSegs' = segs
         /\ scLimit' = sub.lim
         /\ scSegState' = [k \in 1..Len(segs) |->
                             IF k \in SeqRange(sub.started) THEN "main" ELSE "queued"]
         /\ scFetches' = [k \in 1..Len(segs) |-> IF k \in SeqRange(sub.started) THEN 1 ELSE 0]
         /\ scOut' = [k \in 1..Len(segs) |-> <<>>]
         /\ scHandled' = [k \in 1..Len(segs) |-> <<>>]
  /\ scLimitArchive' = NewLimiter
  /\ scPc' = "scanning"
  /\ UNCHANGED <<scCfgVars, scArch, scRows, scErrors>>
  /\ ScOthersUnchanged

\* The end of segment i's task: the fetched blocks are handled (ok) or the
\* error is logged (catch); then the limiter's next() starts a queued segment.
EndSegment(i, ok, fetched) ==
  LET nx == LimiterNext(scLimit)
  IN  /\ scSegState' = [k \in 1..Len(scSegState) |->
                          IF k = i THEN (IF ok THEN "done" ELSE "failed")
                          ELSE IF k \in SeqRange(nx.started) THEN "main"
                          ELSE scSegState[k]]
      /\ scFetches' = [k \in 1..Len(scFetches) |->
                         IF k \in SeqRange(nx.started) THEN scFetches[k] + 1 ELSE scFetches[k]]
      /\ scLimit' = nx.lim
      /\ scHandled' = IF ok THEN [scHandled EXCEPT ![i] = [k \in 1..Len(fetched) |-> fetched[k].index]]
                      ELSE scHandled
      /\ scRows' = IF ok THEN scRows \o HandleAll(scLedger, fetched) ELSE scRows
      /\ scErrors' = IF ok THEN scErrors ELSE Append(scErrors, i)

\* The main query of segment i resolves: its blocks go to out, every archived
\* range becomes a task of limitArchive; without archived ranges the segment ends.
MainResolve(i) ==
  /\ scPc = "scanning" /\ scSegState[i] = "main"
  /\ LET seg == scSegs[i]
         res == QueryBlocks(seg.start, seg.length, scBoundary)
         mainOut == MainOut(scLedger, res, seg.start)
         n0 == Len(scArch)
         n == Len(res.archived_blocks)
         sub == SubmitAll(scLimitArchive, scArchConc, Indices(n0 + 1, n0 + n))
         tasks == [k \in 1..n |->
                     [seg |-> i, start |-> res.archived_blocks[k].start,
                      length |-> res.archived_blocks[k].length,
                      state |-> IF (n0 + k) \in SeqRange(sub.started) THEN "running" ELSE "queued"]]
     IN  /\ scOut' = [scOut EXCEPT ![i] = mainOut]
         /\ IF n = 0
            THEN /\ EndSegment(i, TRUE, mainOut)
                 /\ UNCHANGED <<scArch, scLimitArchive>>
            ELSE /\ scArch' = scArch \o tasks
                 /\ scLimitArchive' = sub.lim
                 /\ scSegState' = [scSegState EXCEPT ![i] = "arch"]
                 /\ UNCHANGED <<scFetches, scLimit, scHandled, scRows, scErrors>>
  /\ UNCHANGED <<scPc, scCfgVars, scSegs>>
  /\ ScOthersUnchanged

\* The main query of segment i rejects: the task's catch logs the error.
MainReject(i) ==
  /\ scPc = "scanning" /\ scSegState[i] = "main"
  /\ EndSegment(i, FALSE, <<>>)
  /\ UNCHANGED <<scPc, scCfgVars, scSegs, scOut, scArch, scLimitArchive>>
  /\ ScOthersUnchanged

\* await Promise.all(archived.map(...)) of segment i continues (resolves)
\* when every archive task of the segment has resolved.
\* ... and rejects as soon as one task of a segment still awaiting it rejects.
PromiseAllNeverRejects(state, outcome) == FALSE
PromiseAllRejects(state, outcome) == state = "arch" /\ outcome = "reject"
AllResolved(arch, i) ==
  \A k \in 1..Len(arch) : arch[k].seg = i => arch[k].state = "resolved"

\* Archive task t settles: "ok" with the blocks of its range, "err" with the
\* Err variant (no blocks), or "reject".  limitArchive's next() starts a
\* queued task; Promise.all of the segment rejects on the first rejection
\* and resolves when every task of the segment has resolved.  The out array
\* of a segment that has already failed is garbage and is not kept.
ArchSettle(t, outcome) ==
  /\ scPc \in {"scanning", "returned"}
  /\ scArch[t].state = "running"
  /\ LET task == scArch[t]
         i == task.seg
         nx == LimiterNext(scLimitArchive)
         blocks == IF outcome = "ok" THEN Indices(task.start, task.start + task.length - 1)
                   ELSE <<>>
         arch1 == [k \in 1..Len(scArch) |->
                     IF k = t
                     THEN [task EXCEPT !.state = IF outcome = "reject" THEN "rejected" ELSE "resolved"]
                     ELSE IF k \in SeqRange(nx.started) THEN [scArch[k] EXCEPT !.state = "running"]
                     ELSE scArch[k]]
         outNow == IF scSegState[i] = "arch" /\ outcome # "reject"
                   THEN scOut[i] \o ArchiveOut(scLedger, task, blocks)
                   ELSE <<>>
         allResolved == AllResolved(arch1, i)
     IN  /\ scArch' = arch1
         /\ scLimitArchive' = nx.lim
         /\ scOut' = [scOut EXCEPT ![i] = outNow]
         /\ IF PromiseAllRejects(scSegState[i], outcome) THEN EndSegment(i, FALSE, <<>>)
            ELSE IF scSegState[i] = "arch" /\ allResolved THEN EndSegment(i, TRUE, outNow)
            ELSE UNCHANGED <<scSegState, scFetches, scLimit, scHandled, scRows, scErrors>>
  /\ UNCHANGED <<scPc, scCfgVars, scSegs>>
  /\ ScOthersUnchanged

ArchResolve(t) == ArchSettle(t, "ok")

\* const ok = r && (r.Ok || r.ok); const arr = ok?.blocks || []   (ICP archives only)
ArchResolveErr(t) == scLedger = "ICP" /\ ArchSettle(t, "err")

ArchReject(t) == ArchSettle(t, "reject")

\* await Promise.all(segs.map(...)) resolves: every segment task has ended
Return ==
  /\ scPc = "scanning"
  /\ \A i \in 1..Len(scSegState) : scSegState[i] \in {"done", "failed"}
  /\ scPc' = "returned"
  /\ UNCHANGED <<scCfgVars, scSegs, scSegState, scFetches, scOut, scArch,
                 scLimit, scLimitArchive, scHandled, scRows, scErrors>>
  /\ ScOthersUnchanged

Next ==
  \/ ChainLengthFail
  \/ LogEmpty
  \/ StartSegments
  \/ \E i \in 1..Len(scSegState) : MainResolve(i)
  \/ \E i \in 1..Len(scSegState) : MainReject(i)
  \/ \E t \in 1..Len(scArch) : ArchResolve(t)
  \/ \E t \in 1..Len(scArch) : ArchResolveErr(t)
  \/ \E t \in 1..Len(scArch) : ArchReject(t)
  \/ Return

Spec == ScInit /\ [][Next]_vars

\* The scan under the event loop's scheduling: while a continuation is ready
\* or a request is pending, one of them eventually runs or is answered
\* (resolved or rejected).  AnyStep is Next, with the steps whose enabling
\* condition is cheapest to evaluate named first.
AnyStep ==
  \/ ChainLengthFail
  \/ LogEmpty
  \/ Return
  \/ \E i \in 1..Len(scSegState) : MainReject(i)
  \/ \E t \in 1..Len(scArch) : ArchReject(t)
  \/ Next

Fairness == WF_vars(AnyStep)

SpecLive == ScInit /\ [][Next]_vars /\ Fairness

\* ------------------------------------------------------ SpecSeq: sequential scan
\* The sequential scanIcpLedger's handling of one block (main page or archive):
\* blocks after CUTOFF_DATE and operations other than Transfer give no row.
seqHandleBlock(block, blockIndex, cfg) ==
  LET timestamp == n64ToMillis(block.timestamp)
  IN  IF TruthyMs(timestamp) /\ timestamp.ms > cfg.toMs THEN NoRows
      ELSE IF block.op # "Transfer" THEN NoRows
      ELSE LET direction == Direction(accountIdToHex(block.from) = cfg.icpAccountIdHex,
                                      accountIdToHex(block.to) = cfg.icpAccountIdHex)
           IN  IF direction = "none" THEN NoRows
               ELSE Row("ICP", direction, DateIso(timestamp), "", "", blockIndex)

\* for (let i = 0; i < blocks.length; i++): the rows of the main page
RECURSIVE SeqMainRows(_, _, _)
SeqMainRows(res, k, cfg) ==
  IF k > Len(res.blocks) THEN <<>>
  ELSE seqHandleBlock(LedgerIcpBlock(res.blocks[k]), res.first_block_index + (k - 1), cfg)
       \o SeqMainRows(res, k + 1, cfg)

\* for (let i = 0; i < ok.blocks.length && scanned < MAX_BLOCKS_PER_LEDGER; i++)
\* { ...; scanned++ }
RECURSIVE SeqArchiveBlocks(_, _, _, _, _)
SeqArchiveBlocks(range, k, maxBlocks, acc, cfg) ==
  IF k > range.length \/ acc.scanned >= maxBlocks THEN acc
  ELSE SeqArchiveBlocks(range, k + 1, maxBlocks,
         [rows |-> acc.rows \o seqHandleBlock(LedgerIcpBlock(range.start + (k - 1)),
                                              range.start + (k - 1), cfg),
          scanned |-> acc.scanned + 1, failed |-> FALSE], cfg)

\* for (const range of res.archived_blocks ?? []): the calls are awaited one
\* after the other; a rejected call leaves the loop with the exception, an
\* Err result is skipped.
RECURSIVE SeqArchives(_, _, _, _, _, _)
SeqArchives(ranges, outcomes, k, maxBlocks, acc, cfg) ==
  IF k > Len(ranges) \/ acc.scanned >= maxBlocks THEN acc
  ELSE IF outcomes[k] = "reject" THEN [acc EXCEPT !.failed = TRUE]
  ELSE IF outcomes[k] = "err" THEN SeqArchives(ranges, outcomes, k + 1, maxBlocks, acc, cfg)
  ELSE SeqArchives(ranges, outcomes, k + 1, maxBlocks,
                   SeqArchiveBlocks(ranges[k], 1, maxBlocks, acc, cfg), cfg)

SqInit ==
  /\ SgIdle /\ ClIdle /\ ScIdle /\ FnIdle /\ RnIdle /\ RsIdle /\ PgIdle
  /\ sqPc = "start"
  /\ sqLength \in 0..MaxChain
  /\ sqBoundary \in 0..sqLength
  /\ sqPage \in 1..MaxScanPage
  /\ sqMaxBlocks \in 1..MaxBlocksBound
  /\ sqCursor = 0 /\ sqScanned = 0 /\ sqFetched = <<>> /\ sqRows = <<>> /\ sqErrors = 0

SqOthersUnchanged == UNCHANGED <<sgVars, clVars, scVars, fnVars, rnVars, rsVars, pgVars>>
SqStartIndex == ScanStart(sqLength - 1, sqMaxBlocks)

\* The chain length query rejects: console.error, return []
SeqChainLengthFail ==
  /\ sqPc = "start"
  /\ sqErrors' = sqErrors + 1
  /\ sqPc' = "returned"
  /\ UNCHANGED <<sqLength, sqBoundary, sqPage, sqMaxBlocks, sqCursor, sqScanned,
                 sqFetched, sqRows>>
  /\ SqOthersUnchanged

\* endIndex, startIndex; for (let cursor = endIndex; ...
SeqChainLengthOk ==
  /\ sqPc = "start"
  /\ sqCursor' = sqLength - 1
  /\ sqPc' = "loop"
  /\ UNCHANGED <<sqLength, sqBoundary, sqPage, sqMaxBlocks, sqScanned,
                 sqFetched, sqRows, sqErrors>>
  /\ SqOthersUnchanged

SeqLoopCondition == sqCursor >= SqStartIndex /\ sqScanned < sqMaxBlocks

\* One pass of the loop body whose calls all return
SeqPage ==
  /\ sqPc = "loop" /\ SeqLoopCondition
  /\ LET length == SegLength(sqCursor, SqStartIndex, sqPage)
         start == sqCursor - (length - 1)
         res == QueryBlocks(start, length, sqBoundary)
         mainRows == SeqMainRows(res, 1, ScanCfg)
     IN  \E outcomes \in [1..Len(res.archived_blocks) -> {"ok", "err"}] :
           LET acc == SeqArchives(res.archived_blocks, outcomes, 1, sqMaxBlocks,
                                  [rows |-> sqRows \o mainRows, scanned |-> sqScanned,
                                   failed |-> FALSE], ScanCfg)
           IN  /\ sqRows' = acc.rows
               /\ sqScanned' = acc.scanned + Len(res.blocks)
               /\ sqCursor' = start - 1
               /\ sqFetched' = Append(sqFetched, [start |-> start, length |-> length,
                                                  failed |-> FALSE])
  /\ UNCHANGED <<sqPc, sqLength, sqBoundary, sqPage, sqMaxBlocks, sqErrors>>
  /\ SqOthersUnchanged

\* query_blocks rejects: catch { console.error; break; } and return rows
SeqPageMainReject ==
  /\ sqPc = "loop" /\ SeqLoopCondition
  /\ LET length == SegLength(sqCursor, SqStartIndex, sqPage)
         start == sqCursor - (length - 1)
     IN  sqFetched' = Append(sqFetched, [start |-> start, length |-> length, failed |-> TRUE])
  /\ sqErrors' = sqErrors + 1
  /\ sqPc' = "returned"
  /\ UNCHANGED <<sqLength, sqBoundary, sqPage, sqMaxBlocks, sqCursor, sqScanned, sqRows>>
  /\ SqOthersUnchanged

\* An archive call rejects after the main page's rows (and those of the
\* archive ranges before it) were pushed: catch { console.error; break; }
SeqPageArchiveReject ==
  /\ sqPc = "loop" /\ SeqLoopCondition
  /\ LET length == SegLength(sqCursor, SqStartIndex, sqPage)
         start == sqCursor - (length - 1)
         res == QueryBlocks(start, length, sqBoundary)
         mainRows == SeqMainRows(res, 1, ScanCfg)
     IN  \E outcomes \in [1..Len(res.archived_blocks) -> {"ok", "err", "reject"}] :
           LET acc == SeqArchives(res.archived_blocks, outcomes, 1, sqMaxBlocks,
                                  [rows |-> sqRows \o mainRows, scanned |-> sqScanned,
                                   failed |-> FALSE], ScanCfg)
           IN  /\ acc.failed
               /\ sqRows' = acc.rows
               /\ sqScanned' = acc.scanned
               /\ sqFetched' = Append(sqFetched, [start |-> start, length |-> length,
                                                  failed |-> TRUE])
  /\ sqErrors' = sqErrors + 1
  /\ sqPc' = "returned"
  /\ UNCHANGED <<sqLength, sqBoundary, sqPage, sqMaxBlocks, sqCursor>>
  /\ SqOthersUnchanged

\* The loop condition fails: return rows
SeqReturn ==
  /\ sqPc = "loop" /\ ~SeqLoopCondition
  /\ sqPc' = "returned"
  /\ UNCHANGED <<sqLength, sqBoundary, sqPage, sqMaxBlocks, sqCursor, sqScanned,
                 sqFetched, sqRows, sqErrors>>
  /\ SqOthersUnchanged

SqNext ==
  \/ SeqChainLengthFail
  \/ SeqChainLengthOk
  \/ SeqPage
  \/ SeqPageMainReject
  \/ SeqPageArchiveReject
  \/ SeqReturn

SpecSeq == SqInit /\ [][SqNext]_vars

\* ------------------------------------------------------ claims
SegEnd(s) == s.start + s.length - 1
SegsCovering(segs, k) == {j \in 1..Len(segs) : segs[j].start <= k /\ k <= SegEnd(segs[j])}

\* C1: for every log length L >= 1, maxBlocks >= 1 and page size P >= 1, the
\* segments built for endIndex = L-1 and startIndex = max(0, L-1-maxBlocks)
\* cover every index of [startIndex, endIndex] exactly once and no segment
\* reaches outside that range.
C1_SegmentsCoverRangeOnce ==
  (sgPc = "built" /\ sgLength >= 1) =>
    LET endIndex == sgLength - 1
        startIndex == Max(0, sgLength - 1 - sgMaxBlocks)
    IN  /\ \A k \in startIndex..endIndex : Cardinality(SegsCovering(sgSegs, k)) = 1
        /\ \A j \in 1..Len(sgSegs) :
             /\ sgSegs[j].length >= 1
             /\ sgSegs[j].start >= startIndex
             /\ SegEnd(sgSegs[j]) <= endIndex

\* A window cut by MAX_BLOCKS_PER_LEDGER and split into several segments, the last shorter.
C1_Witness ==
  /\ sgPc = "built" /\ sgLength = 6 /\ sgMaxBlocks = 4 /\ sgPage = 3
  /\ Len(sgSegs) = 2 /\ sgSegs[2].start = 1 /\ sgSegs[2].length = 2

\* ------------------------------------------------------ classification claims
ClHandled(site) == clPc = "handled" /\ clSite = site

\* The block's timestamp as each handler reads it lies inside the window.
IcpInWindow ==
  LET ts == n64ToMillis(clInput.timestamp)
  IN  ~ts.has \/ (clCfg.fromMs <= ts.ms /\ ts.ms <= clCfg.toMs)
Icrc3Nanos == IF clInput.ts.has THEN clInput.ts.nanos ELSE 0
Icrc3InWindow == FROM_TS(clCfg) <= Icrc3Nanos /\ Icrc3Nanos <= TO_TS(clCfg)

\* A side of a REST transaction matches the watched account under the active mode.
RestSideMatches(account) ==
  /\ account.has
  /\ account.owner = clCfg.principal
  /\ clCfg.strict => normalizeSubaccount(account.sub) = normalizeSubaccount(clCfg.subaccountHex)

\* The direction the classification table gives.
TableDirection(fromMatches, toMatches) ==
  CASE fromMatches /\ toMatches -> "self"
    [] ~fromMatches /\ toMatches -> "inflow"
    [] fromMatches /\ ~toMatches -> "outflow"
    [] OTHER -> "none"

RowsAre(direction) ==
  IF direction = "none" THEN clRows = <<>>
  ELSE Len(clRows) = 1 /\ clRows[1].direction = direction

\* C5: for every transfer whose identities decode, the rows emitted are the
\* ones of the table: self iff both sides match the watched account, inflow
\* iff only to matches, outflow iff only from matches, no row iff neither.
C5_ClassificationTable ==
  /\ (ClHandled("icpBlock") /\ clInput.op = "Transfer" /\ IcpInWindow)
       => RowsAre(TableDirection(toHex(clInput.from) = LowerSeq(clCfg.icpAccountIdHex),
                                 toHex(clInput.to) = LowerSeq(clCfg.icpAccountIdHex)))
  /\ (ClHandled("icrc3Block") /\ clDecoded.reached
        /\ clDecoded.from.kind = "acct" /\ clDecoded.to.kind = "acct")
       => RowsAre(TableDirection(eqAccount(clDecoded.from, clCfg.wallet),
                                 eqAccount(clDecoded.to, clCfg.wallet)))
  /\ (ClHandled("restIcrc") /\ IsRestTransferOp(ToLowerStr(clInput.op))
        /\ clInput.from.has /\ clInput.to.has)
       => RowsAre(TableDirection(RestSideMatches(clInput.from), RestSideMatches(clInput.to)))

\* The block scanners' part of C5 (hex equality, eqAccount): holds.
C5_BlockScannersFollowTable ==
  /\ (ClHandled("icpBlock") /\ clInput.op = "Transfer" /\ IcpInWindow)
       => RowsAre(TableDirection(toHex(clInput.from) = LowerSeq(clCfg.icpAccountIdHex),
                                 toHex(clInput.to) = LowerSeq(clCfg.icpAccountIdHex)))
  /\ (ClHandled("icrc3Block") /\ clDecoded.reached
        /\ clDecoded.from.kind = "acct" /\ clDecoded.to.kind = "acct")
       => RowsAre(TableDirection(eqAccount(clDecoded.from, clCfg.wallet),
                                 eqAccount(clDecoded.to, clCfg.wallet)))
  /\ (ClHandled("restIcrc") /\ IsRestTransferOp(ToLowerStr(clInput.op))
        /\ clInput.from.has /\ clInput.to.has /\ ~clCfg.strict)
       => RowsAre(TableDirection(RestSideMatches(clInput.from), RestSideMatches(clInput.to)))

\* C6: every Mint operation a scanner handles is emitted as a row with
\* direction mint and every Burn operation as a row with direction burn.
C6_MintBurnAlwaysEmitted ==
  /\ (ClHandled("restIcp") /\ ToLowerStr(clInput.transfer_type) \in {"mint", "burn"})
       => RowsAre(ToLowerStr(clInput.transfer_type))
  /\ (ClHandled("icpBlock") /\ clInput.op \in {"Mint", "Burn"} /\ IcpInWindow)
       => RowsAre(IF clInput.op = "Mint" THEN "mint" ELSE "burn")
  /\ (ClHandled("restIcrc") /\ ToLowerStr(clInput.op) \in {"mint", "burn"})
       => RowsAre(ToLowerStr(clInput.op))

\* The REST ICP mapping's part of C6: holds.
C6_RestIcpMintBurn ==
  (ClHandled("restIcp") /\ ToLowerStr(clInput.transfer_type) \in {"mint", "burn"})
    => RowsAre(ToLowerStr(clInput.transfer_type))

\* C7: in the REST scanner an ICRC transfer is appended iff at least one of
\* its sides matches the watched account: owner equality with strict mode
\* off, owner and sub-identity equality (absent = all-zero) with strict on.
C7_RestAppendedIffSideMatches ==
  (ClHandled("restIcrc") /\ IsRestTransferOp(ToLowerStr(clInput.op)))
    => (Len(clRows) = 1 <=> (RestSideMatches(clInput.from) \/ RestSideMatches(clInput.to)))

\* With strict mode off, or a default wallet sub-identity, C7's statement holds.
C7_HoldsOwnerOnlyOrDefaultSub ==
  (ClHandled("restIcrc") /\ IsRestTransferOp(ToLowerStr(clInput.op))
     /\ (~clCfg.strict \/ normalizeSubaccount(clCfg.subaccountHex) = <<>>))
    => (Len(clRows) = 1 <=> (RestSideMatches(clInput.from) \/ RestSideMatches(clInput.to)))

WatchedOwnerSamples == {"mapW", "mapWzero", "mapWsub", "arrW", "arrWsub"}

\* C8: in the ICRC-3 block scanner an xfer block whose from owner and to
\* owner both equal the watched owner is classified as self, whatever
\* sub-identities the two sides carry.
C8_SameOwnerIsSelf ==
  (ClHandled("icrc3Block") /\ Icrc3InWindow /\ clInput.opSample = "op_xfer"
     /\ clInput.fromSample \in WatchedOwnerSamples /\ clInput.toSample \in WatchedOwnerSamples)
    => RowsAre("self")

\* C9: no row is appended for a block whose timestamp lies outside the
\* inclusive window [FROM, TO], for every timestamp value (0 included), in
\* the ICP scan (milliseconds) and in the ICRC-3 scan (nanoseconds).
C9_NoRowOutsideWindow ==
  /\ (ClHandled("icpBlock") /\ ~IcpInWindow) => clRows = <<>>
  /\ (ClHandled("icrc3Block") /\ ~Icrc3InWindow) => clRows = <<>>

\* The ICRC-3 handler's part of C9, and the ICP handler's for every
\* timestamp that is not in millisecond 0: holds.
C9_HoldsApartFromMsZero ==
  /\ (ClHandled("icpBlock") /\ ~IcpInWindow /\ n64ToMillis(clInput.timestamp).ms # 0)
       => clRows = <<>>
  /\ (ClHandled("icrc3Block") /\ ~Icrc3InWindow) => clRows = <<>>

NoOwnerBlobSamples ==
  {"mapNoOwner", "mapOwnerText", "mapOwnerEmpty", "arrEmpty", "text", "absent"}
InvalidPrincipalSamples == {"mapOwnerLong", "arrLong"}
NullIdentitySamples == NoOwnerBlobSamples \cup InvalidPrincipalSamples

SegmentsInFlight == {i \in 1..Len(scSegState) : scSegState[i] \in {"main", "arch"}}
ArchivesInFlight == {t \in 1..Len(scArch) : scArch[t].state = "running"}

\* C2: at every moment of a ledger scan at most CONCURRENCY segment fetches
\* and at most ARCHIVE_CONCURRENCY archive-range fetches are in flight, each
\* counted by its own limiter.
C2_InFlightWithinLimits ==
  /\ Cardinality(SegmentsInFlight) <= scConc
  /\ Cardinality(ArchivesInFlight) <= scArchConc
  /\ scLimit.active = Cardinality(SegmentsInFlight)
  /\ scLimitArchive.active = Cardinality(ArchivesInFlight)

C2_Witness ==
  /\ scPc = "scanning" /\ scConc = 2 /\ scArchConc = 1
  /\ Cardinality(SegmentsInFlight) = 2 /\ Len(scLimit.queue) > 0
  /\ Cardinality(ArchivesInFlight) = 1 /\ Len(scLimitArchive.queue) > 0

SegIndices(seg) == seg.start..(seg.start + seg.length - 1)
RowIndices(rows) == {rows[k].index : k \in 1..Len(rows)}

\* The parallel scanners' part of C3: a failed segment is logged, gives no
\* row, is queried once, and at the return every other segment is done.
C3_ParallelScanIsolatesFailure ==
  \A i \in 1..Len(scSegState) :
    /\ scFetches[i] <= 1
    /\ scSegState[i] = "failed" =>
         /\ i \in SeqRange(scErrors)
         /\ scHandled[i] = <<>>
         /\ RowIndices(scRows) \cap SegIndices(scSegs[i]) = {}
    /\ scPc = "returned" => scSegState[i] \in {"done", "failed"} /\ scFetches[i] = 1

SqFailedPages == {k \in 1..Len(sqFetched) : sqFetched[k].failed}
SqWindowSegs == buildSegments(SqStartIndex, sqLength - 1, sqPage)

\* C3: when the fetch of one segment fails, the failure is logged, no row of
\* that segment is emitted, the segment is not fetched again, every other
\* segment of the ledger is still fetched, and the scan returns normally.
C3_FailedSegmentIsolated ==
  (sqPc = "returned" /\ SqFailedPages # {}) =>
    /\ sqErrors >= 1
    /\ \A k \in SqFailedPages :
         /\ RowIndices(sqRows) \cap SegIndices(sqFetched[k]) = {}
         /\ \A j \in 1..Len(sqFetched) : j # k => sqFetched[j].start # sqFetched[k].start
    /\ \A n \in 1..Len(SqWindowSegs) :
         \E j \in 1..Len(sqFetched) : sqFetched[j].start = SqWindowSegs[n].start

OutIndices(out, src) == {out[k].index : k \in {j \in 1..Len(out) : out[j].src = src}}

\* C4: within one segment fetch no block index is both among the blocks of
\* the main page and among the blocks of a resolved archive range, and no
\* block index of a segment is handed to the block handler twice.
C4_MainAndArchiveDisjoint ==
  \A i \in 1..Len(scOut) :
    /\ OutIndices(scOut[i], "main") \cap OutIndices(scOut[i], "arch") = {}
    /\ \A a, b \in 1..Len(scHandled[i]) : a # b => scHandled[i][a] # scHandled[i][b]

C4_Witness ==
  \E i \in 1..Len(scOut) :
    /\ scSegState[i] = "done"
    /\ OutIndices(scOut[i], "main") # {} /\ OutIndices(scOut[i], "arch") # {}
    /\ Len(scHandled[i]) = scSegs[i].length

\* ------------------------------------------------------ SpecFunctions
\* The two wire encodings of the account (o, s): hasSub = FALSE is an absent
\* sub-identity (no "subaccount" entry / a one-element array).
MapForm(o, hasSub, s) ==
  MapV(<< <<"owner", BlobV(o)>> >>
       \o (IF hasSub THEN << <<"subaccount", BlobV(s)>> >> ELSE <<>>))

ArrayForm(o, hasSub, s) ==
  ArrayV(<<BlobV(o)>> \o (IF hasSub THEN <<BlobV(s)>> ELSE <<>>))

ShortSub == <<7>>
OwnerBlobSamples == {<<>>, WalletOwner, OtherOwner, LongBlob}
SubBlobSamples == {<<>>, ShortSub, Zero32, One32}

FnInitExtractAccount ==
  /\ fnName = "extractAccount"
  /\ fnIn \in [owner : OwnerBlobSamples, hasSub : BOOLEAN, sub : SubBlobSamples]

\* extractAccount applied to the map form and to the array form of one account
ExtractAccountBothForms ==
  /\ fnPc = "ready" /\ fnName = "extractAccount"
  /\ fnOut' = [map |-> extractAccount(MapForm(fnIn.owner, fnIn.hasSub, fnIn.sub)),
               arr |-> extractAccount(ArrayForm(fnIn.owner, fnIn.hasSub, fnIn.sub))]
  /\ fnPc' = "done"
  /\ UNCHANGED <<fnName, fnIn>>
  /\ UNCHANGED <<sgVars, clVars, scVars, sqVars, rnVars, rsVars, pgVars>>

ByteSamples == {1, 16, 255}
Sub32Samples ==
  {Zero32, [i \in 1..32 |-> 255]}
    \cup {[i \in 1..32 |-> IF i = p THEN b ELSE 0] : p \in 1..32, b \in ByteSamples}

FnInitNormalizeSub ==
  /\ fnName = "normalizeSub"
  /\ fnIn \in [owner : {WalletOwner, OtherOwner}, sub : Sub32Samples]

\* normalizeSub(s), eqAccount between (owner, s) and (owner, no sub-identity) in
\* both argument orders, and utils.normalizeSubaccount on the hex text of s
NormalizeSub32 ==
  /\ fnPc = "ready" /\ fnName = "normalizeSub"
  /\ fnOut' = [norm |-> normalizeSub(fnIn.sub),
               eqAbsent |-> eqAccount(Acct(fnIn.owner, fnIn.sub), Acct(fnIn.owner, <<>>)),
               eqAbsentRev |-> eqAccount(Acct(fnIn.owner, <<>>), Acct(fnIn.owner, fnIn.sub)),
               hexNorm |-> normalizeSubaccount(Str(toHex(fnIn.sub)))]
  /\ fnPc' = "done"
  /\ UNCHANGED <<fnName, fnIn>>
  /\ UNCHANGED <<sgVars, clVars, scVars, sqVars, rnVars, rsVars, pgVars>>

\* ------------------------------------------------------ amounts as text
\* A string is the sequence of its characters.
RECURSIVE DigitsOf(_)
\* bigint.toString(): the decimal digits of a non-negative integer
DigitsOf(n) ==
  IF n < 10 THEN <<ToString(n)>> ELSE DigitsOf(n \div 10) \o <<ToString(n % 10)>>

DigitValue(c) ==
  CASE c = "0" -> 0 [] c = "1" -> 1 [] c = "2" -> 2 [] c = "3" -> 3 [] c = "4" -> 4
    [] c = "5" -> 5 [] c = "6" -> 6 [] c = "7" -> 7 [] c = "8" -> 8 [] c = "9" -> 9

RECURSIVE ParseDigits(_, _)
\* BigInt(text) over a text of decimal digits
ParseDigits(chars, acc) ==
  IF chars = <<>> THEN acc
  ELSE ParseDigits(Tail(chars), acc * 10 + DigitValue(Head(chars)))

BigIntOf(chars) == ParseDigits(chars, 0)

RECURSIVE Pow10(_)
\* 10n ** BigInt(decimals)
Pow10(d) == IF d = 0 THEN 1 ELSE 10 * Pow10(d - 1)

RECURSIVE StripLeadingZeros(_)
\* .replace(/^0+/, "")
StripLeadingZeros(chars) ==
  IF chars # <<>> /\ Head(chars) = "0" THEN StripLeadingZeros(Tail(chars)) ELSE chars

RECURSIVE StripTrailingZeros(_)
\* .replace(/0+$/, "")
StripTrailingZeros(chars) ==
  IF chars # <<>> /\ chars[Len(chars)] = "0"
  THEN StripTrailingZeros(SubSeq(chars, 1, Len(chars) - 1))
  ELSE chars

Repeat(c, n) == [i \in 1..n |-> c]

PadStartNone(chars, n, c) == chars

\* s.padStart(n, c)
PadStart(chars, n, c) ==
  IF Len(chars) >= n THEN chars ELSE Repeat(c, n - Len(chars)) \o chars

\* x || "0"
OrZero(chars) == IF chars = <<>> THEN <<"0">> ELSE chars

\* formatAmount(raw, decimals) of the block scanner
formatAmount(raw, decimals) ==
  LET s == OrZero(StripLeadingZeros(raw))
  IN  IF decimals <= 0 THEN s
      ELSE LET whole == IF Len(s) > decimals THEN SubSeq(s, 1, Len(s) - decimals)
                        ELSE <<"0">>
               frac == IF Len(s) > decimals THEN SubSeq(s, Len(s) - decimals + 1, Len(s))
                       ELSE PadStart(s, decimals, "0")
               trimmed == StripTrailingZeros(frac)
           IN  IF Len(trimmed) > 0 THEN whole \o <<".">> \o trimmed ELSE whole

\* utils.formatAmount(raw, decimals) of the REST scanner: (raw || "0") first
utilsFormatAmount(raw, decimals) == formatAmount(OrZero(raw), decimals)

\* human.split(".")
DotPositions(chars) == {i \in 1..Len(chars) : chars[i] = "."}
SplitDot(chars) ==
  LET dots == DotPositions(chars)
  IN  IF dots = {} THEN <<chars>>
      ELSE LET d1 == CHOOSE i \in dots : \A j \in dots : i <= j
               rest == {i \in dots : i > d1}
               d2 == IF rest = {} THEN Len(chars) + 1
                     ELSE CHOOSE i \in rest : \A j \in rest : i <= j
           IN  <<SubSeq(chars, 1, d1 - 1), SubSeq(chars, d1 + 1, d2 - 1)>>

\* toUnitsBig(human, decimals)
toUnitsBig(human, decimals) ==
  LET parts == SplitDot(human)
      w == parts[1]
      f == IF Len(parts) >= 2 THEN parts[2] ELSE <<>>
      frac == SubSeq(f \o Repeat("0", decimals), 1, decimals)
  IN  BigIntOf(OrZero(w)) * Pow10(decimals) + BigIntOf(OrZero(frac))

AmountSamples == (0..MaxAmount) \cup {5000000}
DecimalsSamples == (0..MaxDecimals) \cup {8}

FnInitFormatAmount ==
  /\ fnName = "formatAmount"
  /\ fnIn \in [v : AmountSamples, d : DecimalsSamples]

\* the amount's digits formatted by both scanners and parsed back by toUnitsBig
FormatThenParse ==
  /\ fnPc = "ready" /\ fnName = "formatAmount"
  /\ LET text == formatAmount(DigitsOf(fnIn.v), fnIn.d)
         textRest == utilsFormatAmount(DigitsOf(fnIn.v), fnIn.d)
     IN  fnOut' = [text |-> text, textRest |-> textRest,
                   back |-> toUnitsBig(text, fnIn.d),
                   backRest |-> toUnitsBig(textRest, fnIn.d)]
  /\ fnPc' = "done"
  /\ UNCHANGED <<fnName, fnIn>>
  /\ UNCHANGED <<sgVars, clVars, scVars, sqVars, rnVars, rsVars, pgVars>>

\* formatAmount(value, decimals) of the flow retriever, for a value without sign
flowFormatAmount(value, decimals) ==
  LET paddedValue == PadStart(value, decimals + 1, "0")
      n == Len(paddedValue)
      integerPart == OrZero(IF decimals = 0 THEN <<>> ELSE SubSeq(paddedValue, 1, n - decimals))
      fractionalPart == IF decimals = 0 THEN paddedValue
                        ELSE SubSeq(paddedValue, n - decimals + 1, n)
      trimmedFractional == StripTrailingZeros(fractionalPart)
  IN  IF trimmedFractional # <<>> THEN integerPart \o <<".">> \o trimmedFractional
      ELSE integerPart

\* text.replace(".", ""): the first dot removed
RemoveFirstDot(chars) ==
  LET dots == DotPositions(chars)
  IN  IF dots = {} THEN chars
      ELSE LET d1 == CHOOSE i \in dots : \A j \in dots : i <= j
           IN  SubSeq(chars, 1, d1 - 1) \o SubSeq(chars, d1 + 1, Len(chars))

\* formatAmount((BigInt(total.replace(".", "")) + flowTotal).toString(), decimals)
AddToTotal(total, flowTotal, decimals) ==
  flowFormatAmount(DigitsOf(BigIntOf(RemoveFirstDot(total)) + flowTotal), decimals)

RECURSIVE AccumulateTotals(_, _, _, _)
\* main's loop over the addresses of one asset, from totalReceived / totalSent = "0"
AccumulateTotals(total, flows, field, decimals) ==
  IF flows = <<>> THEN total
  ELSE AccumulateTotals(AddToTotal(total, Head(flows)[field], decimals),
                        Tail(flows), field, decimals)

RECURSIVE SumOfFlows(_, _)
SumOfFlows(flows, field) ==
  IF flows = <<>> THEN 0 ELSE Head(flows)[field] + SumOfFlows(Tail(flows), field)

FlowTotalSamples == {0, 5, 10}
FnInitSummaryTotals ==
  /\ fnName = "summaryTotals"
  /\ \E n \in 0..MaxFlows :
       fnIn \in [d : 1..2, flows : [1..n -> [totalReceived : FlowTotalSamples,
                                              totalSent : FlowTotalSamples]]]

\* the flow retriever's main: the asset's totals after all its addresses
SummaryTotals ==
  /\ fnPc = "ready" /\ fnName = "summaryTotals"
  /\ fnOut' = [totalReceived |-> AccumulateTotals(<<"0">>, fnIn.flows, "totalReceived", fnIn.d),
               totalSent |-> AccumulateTotals(<<"0">>, fnIn.flows, "totalSent", fnIn.d)]
  /\ fnPc' = "done"
  /\ UNCHANGED <<fnName, fnIn>>
  /\ UNCHANGED <<sgVars, clVars, scVars, sqVars, rnVars, rsVars, pgVars>>

FnInit ==
  /\ SgIdle /\ ClIdle /\ ScIdle /\ SqIdle /\ RnIdle /\ RsIdle /\ PgIdle
  /\ fnPc = "ready" /\ fnOut = <<>>
  /\ \/ FnInitExtractAccount
     \/ FnInitNormalizeSub
     \/ FnInitFormatAmount
     \/ FnInitSummaryTotals

FnNext ==
  \/ ExtractAccountBothForms
  \/ NormalizeSub32
  \/ FormatThenParse
  \/ SummaryTotals

SpecFunctions == FnInit /\ [][FnNext]_vars

\* ------------------------------------------------------ claims: decoding
FnDone(name) == fnPc = "done" /\ fnName = name

\* C11: extractAccount returns the same identity, or null both times, on the map
\* form and on the array form of every account (o, s), the empty owner blob
\* included.
C11_MapAndArrayDecodeAlike ==
  FnDone("extractAccount") => fnOut.map = fnOut.arr

\* C11, what the code does: the two forms agree for every non-empty owner blob.
C11_AgreeForNonEmptyOwner ==
  (FnDone("extractAccount") /\ fnIn.owner # <<>>) => fnOut.map = fnOut.arr

\* ------------------------------------------------------ claims: scan ceiling
RECURSIVE SegsTotal(_)
SegsTotal(segs) == IF segs = <<>> THEN 0 ELSE Head(segs).length + SegsTotal(Tail(segs))

\* Number of block indices in [ScanStart(endIndex), endIndex] for the chain length.
RangeCount(length, maxBlocks) ==
  IF length = 0 THEN 0 ELSE (length - 1) - ScanStart(length - 1, maxBlocks) + 1

\* C17: for every chain length, the scan range [startIndex, endIndex], and with
\* it all segments together, hold at most MAX_BLOCKS_PER_LEDGER block indices.
C17_ScanWithinMaxBlocks ==
  sgPc = "built" =>
    /\ RangeCount(sgLength, sgMaxBlocks) <= sgMaxBlocks
    /\ SegsTotal(sgSegs) <= sgMaxBlocks

\* C17, what the code does: the range holds at most MAX_BLOCKS_PER_LEDGER + 1
\* indices, and exactly that many once the chain is longer than the ceiling.
C17_AtMostOneOverCeiling ==
  sgPc = "built" =>
    /\ SegsTotal(sgSegs) <= sgMaxBlocks + 1
    /\ (sgLength > sgMaxBlocks /\ ~(sgLedger = "ICRC3" /\ sgLength = 0))
         => SegsTotal(sgSegs) = sgMaxBlocks + 1

\* ------------------------------------------------------ claims: sub-identities
\* C19: for every 32-byte sequence s, normalizeSub(s) is null exactly when every
\* byte of s is zero and is s itself otherwise (the REST scanner's
\* normalizeSubaccount does the same on the hex text of s); eqAccount takes an
\* all-zero 32-byte sub-identity and an absent one of the same owner as equal.
C19_ZeroSubIsAbsent ==
  FnDone("normalizeSub") =>
    LET zero == \A i \in 1..32 : fnIn.sub[i] = 0
    IN  /\ Len(fnIn.sub) = 32
        /\ (fnOut.norm = <<>>) <=> zero
        /\ ~zero => fnOut.norm = fnIn.sub
        /\ (fnOut.hexNorm = <<>>) <=> zero
        /\ ~zero => fnOut.hexNorm = toHex(fnIn.sub)
        /\ zero => (fnOut.eqAbsent /\ fnOut.eqAbsentRev)

\* The all-zero sub-identity was normalised to null and compared equal to none.
C19_Witness ==
  /\ FnDone("normalizeSub") /\ fnIn.sub = Zero32
  /\ fnOut.norm = <<>> /\ fnOut.eqAbsent /\ fnOut.eqAbsentRev

\* ------------------------------------------------------ claims: amounts
\* C20: for every non-negative integer v and every decimals d >= 0, toUnitsBig
\* of the text formatAmount(v, d) with d decimals is v again; v = 5000000 with
\* d = 8 is formatted as "0.05".
C20_FormatParseRoundTrip ==
  FnDone("formatAmount") =>
    /\ fnOut.back = fnIn.v
    /\ fnOut.backRest = fnIn.v
    /\ (fnIn.v = 5000000 /\ fnIn.d = 8) =>
         (fnOut.text = <<"0", ".", "0", "5">> /\ fnOut.textRest = <<"0", ".", "0", "5">>)

\* 5000000 base units with 8 decimals were formatted as "0.05" and parsed back.
C20_Witness ==
  /\ FnDone("formatAmount") /\ fnIn.v = 5000000 /\ fnIn.d = 8
  /\ fnOut.text = <<"0", ".", "0", "5">> /\ fnOut.back = 5000000

\* ------------------------------------------------------ SpecRestIcp
\* scanner.scanIcp of the REST scanner. A transaction list is its length;
\* RestLimit is limit = min(100, pageSize) and MaxRestIter the iteration cap of
\* the page loops. endpoints.rosetta.icp is never empty (env.getString falls
\* back to the default URL), so the Rosetta branch is always entered.
NoTransactionsAlways(count) == TRUE

\* transactions.length === 0
NoTransactions(count) == count = 0

OutcomeOf(count) == IF count = 0 THEN "empty" ELSE "some"

TryFirst(src) == IF \E i \in 1..Len(rsTried) : rsTried[i] = src THEN rsTried
                 ELSE Append(rsTried, src)

RsOthersUnchanged == UNCHANGED <<sgVars, clVars, scVars, sqVars, fnVars, rnVars, pgVars>>

RsInit ==
  /\ SgIdle /\ ClIdle /\ ScIdle /\ SqIdle /\ FnIdle /\ RnIdle /\ PgIdle
  /\ rsPc = "rosetta" /\ rsTried = <<>>
  /\ rsResult = [src \in RestSources |-> "untried"]
  /\ rsGot = [src \in RestSources |-> 0]
  /\ rsTx = 0 /\ rsIter = 0 /\ rsCount = 0

\* after the Rosetta attempt: Dashboard only if transactions.length === 0
AfterRosetta(count) == IF NoTransactions(count) THEN "smoke" ELSE "rows"

\* fetchViaRosetta resolves with n transactions
RosettaReturns(n) ==
  /\ rsPc = "rosetta"
  /\ rsTried' = TryFirst("rosetta")
  /\ rsResult' = [rsResult EXCEPT !["rosetta"] = OutcomeOf(n)]
  /\ rsGot' = [rsGot EXCEPT !["rosetta"] = n]
  /\ rsTx' = n
  /\ rsPc' = AfterRosetta(n)
  /\ UNCHANGED <<rsIter, rsCount>>
  /\ RsOthersUnchanged

\* fetchViaRosetta rejects: caught, transactions stays []
RosettaFails ==
  /\ rsPc = "rosetta"
  /\ rsTried' = TryFirst("rosetta")
  /\ rsResult' = [rsResult EXCEPT !["rosetta"] = "failed"]
  /\ rsPc' = AfterRosetta(rsTx)
  /\ UNCHANGED <<rsGot, rsTx, rsIter, rsCount>>
  /\ RsOthersUnchanged

\* the smoke test's two requests: their result, or their failure, is only logged
SmokeTest ==
  /\ rsPc = "smoke"
  /\ rsPc' = "v2" /\ rsIter' = 0
  /\ UNCHANGED <<rsTried, rsResult, rsGot, rsTx, rsCount>>
  /\ RsOthersUnchanged

\* fetchByAccount leaves the v2 loop: return if transactions.length > 0, else v1.
\* fetchByAccount starts from its own empty list, so its length is what v2 pushed.
AfterV2Loop(got) == IF got > 0 THEN "afterAccount" ELSE "v1"

\* one page of /v2/accounts/<id>/transactions
V2Page(items, hasNext) ==
  /\ rsPc = "v2" /\ rsIter < MaxRestIter
  /\ rsTried' = TryFirst("v2")
  /\ rsGot' = [rsGot EXCEPT !["v2"] = @ + items]
  /\ rsTx' = rsGot'["v2"]
  /\ LET stop == ~hasNext \/ items < RestLimit \/ rsIter + 1 >= MaxRestIter
     IN  /\ rsIter' = IF stop THEN 0 ELSE rsIter + 1
         /\ rsPc' = IF stop THEN AfterV2Loop(rsGot'["v2"]) ELSE "v2"
         /\ rsResult' = [rsResult EXCEPT !["v2"] = OutcomeOf(rsGot'["v2"])]
  /\ UNCHANGED rsCount
  /\ RsOthersUnchanged

\* a v2 request rejects: catch { fall through to v1 }, pushed items are kept
V2Fails ==
  /\ rsPc = "v2"
  /\ rsTried' = TryFirst("v2")
  /\ rsResult' = [rsResult EXCEPT !["v2"] = "failed"]
  /\ rsPc' = "v1" /\ rsIter' = 0
  /\ UNCHANGED <<rsGot, rsTx, rsCount>>
  /\ RsOthersUnchanged

\* one page of /accounts/<id>/transactions
V1Page(batch) ==
  /\ rsPc = "v1" /\ rsIter < MaxRestIter
  /\ rsTried' = TryFirst("v1")
  /\ rsGot' = [rsGot EXCEPT !["v1"] = @ + batch]
  /\ rsTx' = rsGot["v2"] + rsGot'["v1"]
  /\ LET stop == batch = 0 \/ batch < RestLimit \/ rsIter + 1 >= MaxRestIter
     IN  /\ rsIter' = IF stop THEN 0 ELSE rsIter + 1
         /\ rsPc' = IF stop THEN "afterAccount" ELSE "v1"
  /\ rsResult' = [rsResult EXCEPT !["v1"] = OutcomeOf(rsGot'["v1"])]
  /\ UNCHANGED rsCount
  /\ RsOthersUnchanged

\* a v1 request rejects: nothing catches it inside scanIcp
V1Fails ==
  /\ rsPc = "v1"
  /\ rsTried' = TryFirst("v1")
  /\ rsResult' = [rsResult EXCEPT !["v1"] = "failed"]
  /\ rsPc' = "thrown"
  /\ UNCHANGED <<rsGot, rsTx, rsIter, rsCount>>
  /\ RsOthersUnchanged

\* back in scanIcp: global fallback only if transactions.length === 0
AccountReturned ==
  /\ rsPc = "afterAccount"
  /\ rsPc' = IF NoTransactions(rsTx) THEN "global" ELSE "rows"
  /\ UNCHANGED <<rsTried, rsResult, rsGot, rsTx, rsIter, rsCount>>
  /\ RsOthersUnchanged

\* fetchGlobalFallback resolves with n transactions
GlobalReturns(n) ==
  /\ rsPc = "global"
  /\ rsTried' = TryFirst("global")
  /\ rsResult' = [rsResult EXCEPT !["global"] = OutcomeOf(n)]
  /\ rsGot' = [rsGot EXCEPT !["global"] = n]
  /\ rsTx' = n
  /\ rsPc' = "rows"
  /\ UNCHANGED <<rsIter, rsCount>>
  /\ RsOthersUnchanged

\* fetchGlobalFallback rejects: nothing catches it inside scanIcp
GlobalFails ==
  /\ rsPc = "global"
  /\ rsTried' = TryFirst("global")
  /\ rsResult' = [rsResult EXCEPT !["global"] = "failed"]
  /\ rsPc' = "thrown"
  /\ UNCHANGED <<rsGot, rsTx, rsIter, rsCount>>
  /\ RsOthersUnchanged

\* the row loop: count is the number of transactions fromIcpTransaction maps
RowsWritten(matching) ==
  /\ rsPc = "rows" /\ matching <= rsTx
  /\ rsCount' = matching
  /\ rsPc' = "returned"
  /\ UNCHANGED <<rsTried, rsResult, rsGot, rsTx, rsIter>>
  /\ RsOthersUnchanged

RsNext ==
  \/ \E n \in 0..RestLimit : RosettaReturns(n)
  \/ RosettaFails
  \/ SmokeTest
  \/ \E items \in 0..RestLimit, hasNext \in BOOLEAN : V2Page(items, hasNext)
  \/ V2Fails
  \/ \E batch \in 0..RestLimit : V1Page(batch)
  \/ V1Fails
  \/ AccountReturned
  \/ \E n \in 0..RestLimit : GlobalReturns(n)
  \/ GlobalFails
  \/ \E matching \in 0..(RestLimit * MaxRestIter * 2) : RowsWritten(matching)

SpecRestIcp == RsInit /\ [][RsNext]_vars

\* ------------------------------------------------------ claims: REST sources
SourceRank(src) ==
  CASE src = "rosetta" -> 1 [] src = "v2" -> 2 [] src = "v1" -> 3 [] src = "global" -> 4

WasTried(src) == \E i \in 1..Len(rsTried) : rsTried[i] = src

\* C16: the REST ICP scan queries its data sources in the order Rosetta, v2
\* account query, v1 account query, global query; the Dashboard API only if
\* Rosetta failed or returned no transaction, v1 only if v2 failed or returned
\* no transaction, the global fallback only if the account-scoped queries
\* returned no transaction.
C16_SourcesInFallbackOrder ==
  /\ \A i, j \in 1..Len(rsTried) :
       i < j => SourceRank(rsTried[i]) < SourceRank(rsTried[j])
  /\ (rsPc = "smoke" \/ WasTried("v2") \/ WasTried("v1") \/ WasTried("global"))
       => (WasTried("rosetta") /\ rsResult["rosetta"] \in {"failed", "empty"})
  /\ WasTried("v1") => (WasTried("v2") /\ rsResult["v2"] \in {"failed", "empty"})
  /\ WasTried("global") => (rsGot["v2"] = 0 /\ rsGot["v1"] = 0 /\ rsResult["v1"] = "empty")

\* Every source was queried in turn: Rosetta, v2 and v1 gave nothing.
C16_Witness ==
  /\ rsTried = <<"rosetta", "v2", "v1", "global">>
  /\ rsPc = "returned"

\* ------------------------------------------------------ SpecRun
\* One or more runs of a scanner's main against one report file and one ledger
\* state. A file is the sequence of its lines; every matching transaction of a
\* ledger lies in a segment of its own, so one segment task handles one row.
HeaderLine == [kind |-> "header", ledger |-> "", idx |-> 0]
ForeignLine == [kind |-> "foreign", ledger |-> "", idx |-> 0]
RowLine(l, k) == [kind |-> "row", ledger |-> l, idx |-> k]

LedgerOrder == <<"ICP", "ckBTC">>

\* if (!fs.existsSync(path) || fs.statSync(path).size === 0)
NeedsHeader(file) == ~file.exists \/ Len(file.lines) = 0

\* fs.writeFileSync(path, CSV_HEADER.join(",") + "\n")
WriteHeader(file) == [exists |-> TRUE, lines |-> <<HeaderLine>>]

\* fs.appendFileSync(path, line): creates the file when it is missing
AppendLines(file, lines) == [exists |-> TRUE, lines |-> file.lines \o lines]

RowsOf(l, n) == [k \in 1..n |-> RowLine(l, k)]

RECURSIVE SumOver(_, _)
\* all.length / counts.reduce((a, b) => a + b, 0)
SumOver(f, S) ==
  IF S = {} THEN 0 ELSE LET l == CHOOSE x \in S : TRUE IN f[l] + SumOver(f, S \ {l})

RnOthersUnchanged == UNCHANGED <<sgVars, clVars, scVars, sqVars, fnVars, rsVars, pgVars>>

\* the state main starts from, for the given variant, file and ledger state
RunStart(variant, run, file, matching) ==
  /\ rnVariant' = variant /\ rnRun' = run
  /\ rnPc' = IF variant = "batch" THEN "scans" ELSE "sanity"
  /\ rnChecks' = [i \in 1..SanityChecks |-> "pending"]
  /\ rnMeta' = [i \in 1..SanityChecks |-> "none"]
  /\ rnFile' = file /\ rnFile0' = file
  /\ rnMatching' = matching
  /\ rnScan' = [l \in Ledgers |-> "idle"]
  /\ rnNext' = [l \in Ledgers |-> 1]
  /\ rnRows' = [l \in Ledgers |-> 0]
  /\ rnLog' = {} /\ rnTotal' = 0

InitialFiles ==
  {NoFile, [exists |-> TRUE, lines |-> <<>>],
   [exists |-> TRUE, lines |-> <<HeaderLine>>],
   [exists |-> TRUE, lines |-> <<ForeignLine>>]}

RnInit ==
  /\ SgIdle /\ ClIdle /\ ScIdle /\ SqIdle /\ FnIdle /\ RsIdle /\ PgIdle
  /\ rnVariant \in {"block", "rest", "batch"} /\ rnRun = 1
  /\ rnPc = (IF rnVariant = "batch" THEN "scans" ELSE "sanity")
  /\ rnChecks = [i \in 1..SanityChecks |-> "pending"]
  /\ rnMeta = [i \in 1..SanityChecks |-> "none"]
  /\ rnFile \in InitialFiles /\ rnFile0 = rnFile
  /\ rnMatching \in [Ledgers -> 0..MaxRows]
  /\ rnScan = [l \in Ledgers |-> "idle"]
  /\ rnNext = [l \in Ledgers |-> 1]
  /\ rnRows = [l \in Ledgers |-> 0]
  /\ rnLog = {} /\ rnTotal = 0

SanityMayStartAny(i) == TRUE

\* await sanityCheck_ckBTC; await sanityCheck_ckUSDC; await sanityCheck_ICP
SanityMayStart(i) == \A j \in 1..(i - 1) : rnChecks[j] = "done"

SanityStart(i) ==
  /\ rnVariant # "batch" /\ rnPc = "sanity"
  /\ rnChecks[i] = "pending" /\ SanityMayStart(i)
  /\ rnChecks' = [rnChecks EXCEPT ![i] = IF rnVariant = "block" THEN "meta" ELSE "running"]
  /\ UNCHANGED <<rnVariant, rnPc, rnRun, rnMeta, rnFile, rnFile0, rnMatching, rnScan, rnNext,
                 rnRows, rnLog, rnTotal>>
  /\ RnOthersUnchanged

\* block scanner: getSymbolAndDecimals of the check returns; a rejected symbol
\* or decimals request is swallowed (catch { }) and the defaults are kept.
\* Then the check issues its block fetch.
SanityMeta(i, ok) ==
  /\ rnVariant = "block" /\ rnPc = "sanity" /\ rnChecks[i] = "meta"
  /\ rnMeta' = [rnMeta EXCEPT ![i] = IF ok THEN "ok" ELSE "default"]
  /\ rnChecks' = [rnChecks EXCEPT ![i] = "running"]
  /\ UNCHANGED <<rnVariant, rnPc, rnRun, rnFile, rnFile0, rnMatching, rnScan, rnNext,
                 rnRows, rnLog, rnTotal>>
  /\ RnOthersUnchanged

\* the check's fetch resolves and its verdict is logged
SanityDone(i) ==
  /\ rnPc = "sanity" /\ rnChecks[i] = "running"
  /\ rnChecks' = [rnChecks EXCEPT ![i] = "done"]
  /\ UNCHANGED <<rnVariant, rnPc, rnRun, rnMeta, rnFile, rnFile0, rnMatching, rnScan, rnNext,
                 rnRows, rnLog, rnTotal>>
  /\ RnOthersUnchanged

AfterSanityErrorCaught == "sanity"

\* main().catch((e) => { console.error(e); process.exit(1); })
AfterSanityError == "failed"

\* block scanner: the check's block fetch (main page or archive) rejects;
\* nothing catches it before main().catch
SanityThrows(i) ==
  /\ rnVariant = "block" /\ rnPc = "sanity" /\ rnChecks[i] = "running"
  /\ rnChecks' = [rnChecks EXCEPT ![i] = "failed"]
  /\ rnPc' = AfterSanityError
  /\ rnLog' = rnLog \cup {<<"main", "fatal">>}
  /\ UNCHANGED <<rnVariant, rnRun, rnMeta, rnFile, rnFile0, rnMatching, rnScan, rnNext,
                 rnRows, rnTotal>>
  /\ RnOthersUnchanged

\* ensureCsvHeader / csv.ensureHeader, then Promise.all over the ledgers' scans.
\* The block scanner catches a failed header write, the REST scanner does not.
EnsureHeaderAndStart(writeOk) ==
  /\ rnVariant # "batch" /\ rnPc = "sanity"
  /\ \A i \in 1..SanityChecks : rnChecks[i] = "done"
  /\ (~NeedsHeader(rnFile)) => writeOk
  /\ rnFile' = IF NeedsHeader(rnFile) /\ writeOk THEN WriteHeader(rnFile) ELSE rnFile
  /\ IF writeOk \/ rnVariant = "block"
     THEN /\ rnPc' = "scans"
          /\ rnScan' = [l \in Ledgers |-> "started"]
          /\ rnLog' = IF writeOk THEN rnLog ELSE rnLog \cup {<<"main", "header">>}
     ELSE /\ rnPc' = "failed"
          /\ rnLog' = rnLog \cup {<<"main", "fatal">>}
          /\ UNCHANGED rnScan
  /\ UNCHANGED <<rnVariant, rnRun, rnChecks, rnMeta, rnFile0, rnMatching, rnNext, rnRows, rnTotal>>
  /\ RnOthersUnchanged

AfterLengthErrorThrows == "caught"

\* catch (e) { console.error(...); return []; }
AfterLengthError == "returned"

\* block scanner: query_blocks / icrc3_get_blocks for the length rejects
LengthFails(l) ==
  /\ rnVariant = "block" /\ rnPc = "scans" /\ rnScan[l] = "started"
  /\ rnScan' = [rnScan EXCEPT ![l] = AfterLengthError]
  /\ rnRows' = [rnRows EXCEPT ![l] = 0]
  /\ rnLog' = rnLog \cup {<<l, "length">>}
  /\ UNCHANGED <<rnVariant, rnPc, rnRun, rnChecks, rnMeta, rnFile, rnFile0, rnMatching, rnNext, rnTotal>>
  /\ RnOthersUnchanged

LengthOk(l) ==
  /\ rnVariant = "block" /\ rnPc = "scans" /\ rnScan[l] = "started"
  /\ rnScan' = [rnScan EXCEPT ![l] = "scanning"]
  /\ UNCHANGED <<rnVariant, rnPc, rnRun, rnChecks, rnMeta, rnFile, rnFile0, rnMatching, rnNext,
                 rnRows, rnLog, rnTotal>>
  /\ RnOthersUnchanged

\* block scanner: the scan rejects before its first request (Principal.fromText
\* of the canister id); main's catch logs it and takes [] for the ledger
ScanThrows(l) ==
  /\ rnVariant = "block" /\ rnPc = "scans" /\ rnScan[l] = "started"
  /\ rnScan' = [rnScan EXCEPT ![l] = "caught"]
  /\ rnRows' = [rnRows EXCEPT ![l] = 0]
  /\ rnLog' = rnLog \cup {<<l, "scan">>}
  /\ UNCHANGED <<rnVariant, rnPc, rnRun, rnChecks, rnMeta, rnFile, rnFile0, rnMatching, rnNext, rnTotal>>
  /\ RnOthersUnchanged

\* block scanner, one segment task: rows.push(row); emitRow(symbol, row), where
\* appendRow catches a failed appendFileSync and logs it
EmitRow(l, appendOk) ==
  /\ rnVariant = "block" /\ rnPc = "scans" /\ rnScan[l] = "scanning"
  /\ rnNext[l] <= rnMatching[l]
  /\ rnRows' = [rnRows EXCEPT ![l] = @ + 1]
  /\ rnNext' = [rnNext EXCEPT ![l] = @ + 1]
  /\ rnFile' = IF appendOk THEN AppendLines(rnFile, <<RowLine(l, rnNext[l])>>) ELSE rnFile
  /\ rnLog' = IF appendOk THEN rnLog ELSE rnLog \cup {<<l, "append">>}
  /\ UNCHANGED <<rnVariant, rnPc, rnRun, rnChecks, rnMeta, rnFile0, rnMatching, rnScan, rnTotal>>
  /\ RnOthersUnchanged

\* block scanner, one segment task whose fetch rejects: logged, segment skipped
SegmentFails(l) ==
  /\ rnVariant = "block" /\ rnPc = "scans" /\ rnScan[l] = "scanning"
  /\ rnNext[l] <= rnMatching[l]
  /\ rnNext' = [rnNext EXCEPT ![l] = @ + 1]
  /\ rnLog' = rnLog \cup {<<l, "segment">>}
  /\ UNCHANGED <<rnVariant, rnPc, rnRun, rnChecks, rnMeta, rnFile, rnFile0, rnMatching, rnScan,
                 rnRows, rnTotal>>
  /\ RnOthersUnchanged

\* block scanner: await Promise.all(tasks); return rows
ScanReturns(l) ==
  /\ rnVariant = "block" /\ rnPc = "scans" /\ rnScan[l] = "scanning"
  /\ rnNext[l] > rnMatching[l]
  /\ rnScan' = [rnScan EXCEPT ![l] = "returned"]
  /\ UNCHANGED <<rnVariant, rnPc, rnRun, rnChecks, rnMeta, rnFile, rnFile0, rnMatching, rnNext,
                 rnRows, rnLog, rnTotal>>
  /\ RnOthersUnchanged

\* REST scanner: the ledger's fetch rejects; run's catch logs it and returns 0
RestFetchFails(l) ==
  /\ rnVariant = "rest" /\ rnPc = "scans" /\ rnScan[l] = "started"
  /\ rnScan' = [rnScan EXCEPT ![l] = "caught"]
  /\ rnRows' = [rnRows EXCEPT ![l] = 0]
  /\ rnLog' = rnLog \cup {<<l, "scan">>}
  /\ UNCHANGED <<rnVariant, rnPc, rnRun, rnChecks, rnMeta, rnFile, rnFile0, rnMatching, rnNext, rnTotal>>
  /\ RnOthersUnchanged

\* REST scanner: the fetch resolves and the row loop runs; csv.appendRow does not
\* catch, so a failed append (the failAt-th, 0 for none) leaves the scan as an
\* exception and run's catch returns 0 for the ledger
RestRows(l, failAt) ==
  /\ rnVariant = "rest" /\ rnPc = "scans" /\ rnScan[l] = "started"
  /\ failAt <= rnMatching[l]
  /\ LET written == IF failAt = 0 THEN rnMatching[l] ELSE failAt - 1
     IN  /\ rnFile' = IF written > 0 THEN AppendLines(rnFile, RowsOf(l, written)) ELSE rnFile
         /\ rnNext' = [rnNext EXCEPT ![l] = written + 1]
  /\ rnScan' = [rnScan EXCEPT ![l] = IF failAt = 0 THEN "returned" ELSE "caught"]
  /\ rnRows' = [rnRows EXCEPT ![l] = IF failAt = 0 THEN rnMatching[l] ELSE 0]
  /\ rnLog' = IF failAt = 0 THEN rnLog ELSE rnLog \cup {<<l, "scan">>}
  /\ UNCHANGED <<rnVariant, rnPc, rnRun, rnChecks, rnMeta, rnFile0, rnMatching, rnTotal>>
  /\ RnOthersUnchanged

\* Promise.all resolves; "Scan complete. Appended ${total} rows"
Summary ==
  /\ rnVariant # "batch" /\ rnPc = "scans"
  /\ \A l \in Ledgers : rnScan[l] \in {"returned", "caught"}
  /\ rnTotal' = SumOver(rnRows, Ledgers)
  /\ rnPc' = "summary"
  /\ UNCHANGED <<rnVariant, rnRun, rnChecks, rnMeta, rnFile, rnFile0, rnMatching, rnScan, rnNext,
                 rnRows, rnLog>>
  /\ RnOthersUnchanged

BatchTurn(k) ==
  /\ rnScan[LedgerOrder[k]] = "idle"
  /\ \A j \in 1..(k - 1) : rnScan[LedgerOrder[j]] # "idle"

\* batch-write main: the ledgers are scanned one after another; the sequential
\* scan stops at its first failed page and returns the rows found so far
BatchScan(k, found) ==
  /\ rnVariant = "batch" /\ rnPc = "scans" /\ BatchTurn(k)
  /\ found <= rnMatching[LedgerOrder[k]]
  /\ rnScan' = [rnScan EXCEPT ![LedgerOrder[k]] = "returned"]
  /\ rnRows' = [rnRows EXCEPT ![LedgerOrder[k]] = found]
  /\ rnNext' = [rnNext EXCEPT ![LedgerOrder[k]] = found + 1]
  /\ rnLog' = IF found < rnMatching[LedgerOrder[k]]
              THEN rnLog \cup {<<LedgerOrder[k], "segment">>} ELSE rnLog
  /\ UNCHANGED <<rnVariant, rnPc, rnRun, rnChecks, rnMeta, rnFile, rnFile0, rnMatching, rnTotal>>
  /\ RnOthersUnchanged

\* batch-write main: fs.writeFileSync(OUT_CSV, lines.join("\n")) with the header
\* and every collected row; a failed write leaves main as an exception
BatchWrite(writeOk) ==
  /\ rnVariant = "batch" /\ rnPc = "scans"
  /\ \A l \in Ledgers : rnScan[l] # "idle"
  /\ IF writeOk
     THEN /\ rnFile' = [exists |-> TRUE,
                        lines |-> <<HeaderLine>> \o RowsOf(LedgerOrder[1], rnRows[LedgerOrder[1]])
                                    \o RowsOf(LedgerOrder[2], rnRows[LedgerOrder[2]])]
          /\ rnTotal' = SumOver(rnRows, Ledgers)
          /\ rnPc' = "summary"
          /\ UNCHANGED rnLog
     ELSE /\ rnPc' = "failed"
          /\ rnLog' = rnLog \cup {<<"main", "fatal">>}
          /\ UNCHANGED <<rnFile, rnTotal>>
  /\ UNCHANGED <<rnVariant, rnRun, rnChecks, rnMeta, rnFile0, rnMatching, rnScan, rnNext,
                 rnRows>>
  /\ RnOthersUnchanged

\* after a run that logged no error, the same scanner is run again against the
\* same file and ledger state
RunAgain ==
  /\ rnPc = "summary" /\ rnRun < MaxRuns /\ rnLog = {}
  /\ RunStart(rnVariant, rnRun + 1, rnFile, rnMatching)
  /\ RnOthersUnchanged

RnNext ==
  \/ \E i \in 1..SanityChecks : SanityStart(i)
  \/ \E i \in 1..SanityChecks, ok \in BOOLEAN : SanityMeta(i, ok)
  \/ \E i \in 1..SanityChecks : SanityDone(i)
  \/ \E i \in 1..SanityChecks : SanityThrows(i)
  \/ \E writeOk \in BOOLEAN : EnsureHeaderAndStart(writeOk)
  \/ \E l \in Ledgers : LengthFails(l)
  \/ \E l \in Ledgers : LengthOk(l)
  \/ \E l \in Ledgers : ScanThrows(l)
  \/ \E l \in Ledgers, appendOk \in BOOLEAN : EmitRow(l, appendOk)
  \/ \E l \in Ledgers : SegmentFails(l)
  \/ \E l \in Ledgers : ScanReturns(l)
  \/ \E l \in Ledgers : RestFetchFails(l)
  \/ \E l \in Ledgers, failAt \in 0..MaxRows : RestRows(l, failAt)
  \/ Summary
  \/ \E k \in 1..Len(LedgerOrder), found \in 0..MaxRows : BatchScan(k, found)
  \/ \E writeOk \in BOOLEAN : BatchWrite(writeOk)
  \/ RunAgain

SpecRun == RnInit /\ [][RnNext]_vars

\* ------------------------------------------------------ claims: the report file
IsPrefix(a, b) == Len(a) <= Len(b) /\ SubSeq(b, 1, Len(a)) = a
BeginsWithHeader(file) ==
  file.exists /\ Len(file.lines) >= 1 /\ file.lines[1] = HeaderLine
Occurrences(lines, x) == Cardinality({i \in 1..Len(lines) : lines[i] = x})

\* ensureCsvHeader / csv.ensureHeader has run in this run
HeaderEnsured == rnVariant # "batch" /\ rnPc \in {"scans", "summary"}

\* rows appended to the file since the run started
AppendedRows ==
  Cardinality({i \in (Len(rnFile0.lines) + 1)..Len(rnFile.lines) :
                 rnFile.lines[i].kind = "row"})
AppendedRowsOf(l) ==
  Cardinality({i \in (Len(rnFile0.lines) + 1)..Len(rnFile.lines) :
                 rnFile.lines[i].kind = "row" /\ rnFile.lines[i].ledger = l})
LedgerLogged(l) == \E e \in rnLog : e[1] = l

\* C12: once ensureCsvHeader has run the file begins with the header line, and
\* every later write of the run only appends: the content before a write is a
\* prefix of the content after it.
C12_HeaderThenAppendOnly ==
  /\ [](HeaderEnsured => BeginsWithHeader(rnFile))
  /\ [][HeaderEnsured => IsPrefix(rnFile.lines, rnFile'.lines)]_vars

\* C12, what the code does: after ensureCsvHeader every write is an append, and
\* the file begins with the header unless it held other content before or the
\* header write failed.
C12_AppendOnlyOnceEnsured ==
  /\ [][HeaderEnsured => IsPrefix(rnFile.lines, rnFile'.lines)]_vars
  /\ []((HeaderEnsured /\ <<"main", "header">> \notin rnLog
           /\ ~(Len(rnFile.lines) >= 1 /\ rnFile.lines[1] = ForeignLine))
          => BeginsWithHeader(rnFile))

\* C12, the batch-write main: no write of any variant replaces earlier content.
C12_NoWriteRewrites == [][IsPrefix(rnFile.lines, rnFile'.lines)]_vars

\* no console.error in this run; an earlier run is rerun only when it had none
NoErrorLogged == rnLog = {}

\* C13: after the scan has run twice against the same ledger state and the same
\* file (no request and no write failing), every matching row is in the file
\* twice and the header once.
C13_SecondRunDuplicatesRows ==
  (rnVariant # "batch" /\ rnRun = 2 /\ rnPc = "summary" /\ NoErrorLogged) =>
    /\ \A l \in Ledgers : \A k \in 1..rnMatching[l] :
         Occurrences(rnFile.lines, RowLine(l, k)) = 2
    /\ Occurrences(rnFile.lines, HeaderLine) = 1

\* C13, what the code does: every error-free run appends every matching row once
\* more, nothing is removed, and the header is there once unless the file held
\* other content before the first run.
C13_EveryRunAppendsAgain ==
  (rnVariant # "batch" /\ rnPc = "summary" /\ NoErrorLogged) =>
    /\ \A l \in Ledgers : \A k \in 1..rnMatching[l] :
         Occurrences(rnFile.lines, RowLine(l, k)) = rnRun
    /\ IsPrefix(rnFile0.lines, rnFile.lines)
    /\ rnFile.lines[1] # ForeignLine => Occurrences(rnFile.lines, HeaderLine) = 1

\* ------------------------------------------------------ claims: the run
\* C14: a ledger whose chain length / log length cannot be fetched returns zero
\* rows without throwing, and the other ledgers' scans still complete and emit
\* their rows.
C14_LengthFailureStaysLocal ==
  \A l \in Ledgers :
    (rnVariant = "block" /\ <<l, "length">> \in rnLog) =>
      /\ rnScan[l] = "returned" /\ rnRows[l] = 0 /\ AppendedRowsOf(l) = 0
      /\ rnPc = "summary" =>
           \A o \in Ledgers \ {l} :
             /\ rnScan[o] \in {"returned", "caught"}
             /\ ~LedgerLogged(o) =>
                  (rnScan[o] = "returned" /\ rnRows[o] = rnMatching[o]
                     /\ AppendedRowsOf(o) = rnMatching[o])

\* ICP's length could not be fetched; ckBTC's rows were all emitted.
C14_Witness ==
  /\ rnVariant = "block" /\ rnPc = "summary"
  /\ <<"ICP", "length">> \in rnLog /\ rnMatching["ICP"] >= 1
  /\ rnMatching["ckBTC"] >= 1 /\ rnRows["ckBTC"] = rnMatching["ckBTC"]
  /\ AppendedRowsOf("ckBTC") = rnMatching["ckBTC"]

\* C15: the sanity checks run one after another, all have finished before the
\* header is ensured and before any ledger scan starts, and none writes to the
\* report file.
C15_SanityChecksFirst ==
  rnVariant # "batch" =>
    /\ Cardinality({i \in 1..SanityChecks : rnChecks[i] \in {"meta", "running"}}) <= 1
    /\ \A i \in 1..SanityChecks :
         rnChecks[i] # "pending" => \A j \in 1..(i - 1) : rnChecks[j] = "done"
    /\ (HeaderEnsured \/ \E l \in Ledgers : rnScan[l] # "idle")
         => \A i \in 1..SanityChecks : rnChecks[i] = "done"
    /\ (\E i \in 1..SanityChecks : rnChecks[i] # "done") => rnFile = rnFile0

\* All checks are done, the header has been written and the scans have started.
C15_Witness ==
  /\ rnVariant = "block" /\ rnPc = "scans"
  /\ \A i \in 1..SanityChecks : rnChecks[i] = "done"
  /\ rnFile0 = NoFile /\ rnFile.lines = <<HeaderLine>>
  /\ \A l \in Ledgers : rnScan[l] = "started"

\* C18: the total of the summary line is the number of rows appended to the file
\* during the run and the sum of the per-ledger counts, also when a ledger scan
\* or a row append failed part-way.
C18_TotalIsRowsAppended ==
  (rnVariant # "batch" /\ rnPc = "summary") =>
    /\ rnTotal = AppendedRows
    /\ rnTotal = SumOver(rnRows, Ledgers)

\* C18, what the code does: the total is the sum of the per-ledger counts, and
\* it is the number of rows appended when no append and no REST scan failed.
C18_TotalIsSumOfCounts ==
  (rnVariant # "batch" /\ rnPc = "summary") =>
    /\ rnTotal = SumOver(rnRows, Ledgers)
    /\ (\A e \in rnLog : e[2] \notin {"append", "scan"}) => rnTotal = AppendedRows

\* ------------------------------------------------------ claims: segment order
\* C21: buildSegments returns the segments in descending order: the segment with
\* idx 0 ends at endIndex, every following segment ends one index below the
\* start of the one before it, and every segment holds between 1 and pageSize
\* indices.
C21_SegmentsDescending ==
  (sgPc = "built" /\ Len(sgSegs) >= 1) =>
    /\ sgSegs[1].idx = 0 /\ SegEnd(sgSegs[1]) = sgLength - 1
    /\ \A j \in 2..Len(sgSegs) :
         /\ sgSegs[j].idx = j - 1
         /\ SegEnd(sgSegs[j]) = sgSegs[j - 1].start - 1
    /\ \A j \in 1..Len(sgSegs) : 1 <= sgSegs[j].length /\ sgSegs[j].length <= sgPage

\* Three segments, most recent first, the last one shorter than the page.
C21_Witness ==
  /\ sgPc = "built" /\ sgPage = 2 /\ Len(sgSegs) = 3
  /\ sgSegs[1].start = 4 /\ sgSegs[2].start = 2
  /\ sgSegs[3].start = 1 /\ sgSegs[3].length = 1

\* ------------------------------------------------------------ C22 (Spec)
\* segDone++ of a segment task: in the try branch after the blocks were
\* handled, and in the catch branch after a fetch of the segment rejected.
CountedInSegDone(i) == scSegState[i] \in {"done", "failed"}
PendingArchives(i) ==
  {t \in 1..Len(scArch) : scArch[t].seg = i /\ scArch[t].state \in {"running", "queued"}}
ArchivesOf(i) == {t \in 1..Len(scArch) : scArch[t].seg = i}

\* C22: the blocks of a segment are classified and emitted only after the
\* main-page fetch and every archive-range fetch named in that page's response
\* have completed, and a segment is never counted as done (segDone) while one
\* of its archive fetches is still pending.
C22_NeverDoneWhileArchivePending ==
  \A i \in 1..Len(scSegState) :
    /\ scHandled[i] # <<>> => (scFetches[i] = 1 /\ PendingArchives(i) = {})
    /\ CountedInSegDone(i) => PendingArchives(i) = {}

\* What holds of C22: blocks of a segment are handled, and the segment takes
\* the try branch's segDone++, only when its main page has been fetched and
\* every archive range named by that page has resolved.
C22_HandledOnlyAfterAllFetches ==
  \A i \in 1..Len(scSegState) :
    /\ (scHandled[i] # <<>> \/ scSegState[i] = "done") =>
         /\ scFetches[i] = 1
         /\ \A t \in ArchivesOf(i) : scArch[t].state = "resolved"
         /\ \A t \in ArchivesOf(i) :
              scLedger = "ICRC3" =>
                \A k \in scArch[t].start..(scArch[t].start + scArch[t].length - 1) :
                  k \in SeqRange(scHandled[i])
    /\ scSegState[i] \in {"main", "arch", "queued", "failed"} => scHandled[i] = <<>>
    /\ \A k \in 1..Len(scRows) :
         \E j \in 1..Len(scSegState) :
           scSegState[j] = "done" /\ scRows[k].index \in SeqRange(scHandled[j])

\* A segment whose page named two archive ranges is done and all its blocks
\* were handled after both ranges resolved.
C22_DoneAfterTwoArchives ==
  \E i \in 1..Len(scSegState) :
    /\ scSegState[i] = "done"
    /\ Cardinality(ArchivesOf(i)) = 2
    /\ \A t \in ArchivesOf(i) : scArch[t].state = "resolved"
    /\ Len(scHandled[i]) >= 2

\* ------------------------------------------------------------ C24 (Spec)
RejectedArchives(i) == {t \in ArchivesOf(i) : scArch[t].state = "rejected"}
MainPageBlocks(i) ==
  MainOut(scLedger, QueryBlocks(scSegs[i].start, scSegs[i].length, scBoundary), scSegs[i].start)

\* C24: in the parallel scanner a segment is all-or-nothing: when an
\* archive-range fetch of a segment has rejected, the segment is logged as
\* failed and no block of the segment is handled or emitted, neither the
\* blocks of its main page nor those of archive fetches that resolve before
\* or after the rejection.
C24_SegmentAllOrNothing ==
  \A i \in 1..Len(scSegState) :
    RejectedArchives(i) # {} =>
      /\ scSegState[i] = "failed"
      /\ i \in SeqRange(scErrors)
      /\ scHandled[i] = <<>>
      /\ RowIndices(scRows) \cap SegIndices(scSegs[i]) = {}

\* A failed segment whose main page had returned a block, with one archive
\* range rejected and another, holding a block of the watched account, resolved.
C24_Witness ==
  \E i \in 1..Len(scSegState) :
    /\ RejectedArchives(i) # {}
    /\ Len(MainPageBlocks(i)) >= 1
    /\ \E t \in ArchivesOf(i) : scArch[t].state = "resolved" /\ scArch[t].start % 3 # 2

\* ------------------------------------------------------------ C23 (SpecLive)
SegmentSettled(i) == scSegState[i] \in {"done", "failed"}

\* While a segment has not settled some request is in flight: a queued
\* segment waits behind a running one, a segment awaiting its archives has a
\* running or queued archive task, a queued archive task waits behind a
\* running one.
NoDeadlock ==
  /\ (\E i \in 1..Len(scSegState) : scSegState[i] = "queued") =>
       (\E j \in 1..Len(scSegState) : scSegState[j] \in {"main", "arch"})
  /\ \A i \in 1..Len(scSegState) : scSegState[i] = "arch" => PendingArchives(i) # {}
  /\ (\E t \in 1..Len(scArch) : scArch[t].state = "queued") => ArchivesInFlight # {}
  /\ (scPc = "scanning" /\ \A i \in 1..Len(scSegState) : SegmentSettled(i)) => ENABLED Return

\* C23: if every fetch eventually resolves or rejects, a parallel ledger scan
\* eventually returns; every segment task submitted to the segment limiter
\* eventually starts and settles, also when all running segment tasks hold
\* their slot while their archive fetches queue behind the archive limiter and
\* also after rejections; no deadlock state is reachable.
C23_ScanEventuallyReturns ==
  /\ <>(scPc = "returned" /\ \A i \in 1..Len(scSegState) : SegmentSettled(i))
  /\ []NoDeadlock

\* A returned scan with one segment slot and one archive slot: the first
\* segment held the only slot while the second of its two archive fetches was
\* queued and the other segment waited; one segment failed, one is done.
C23_Witness ==
  /\ scPc = "returned" /\ scConc = 1 /\ scArchConc = 1
  /\ Len(scSegState) >= 2
  /\ \E i \in 1..Len(scSegState) : Cardinality(ArchivesOf(i)) >= 2
  /\ \E i \in 1..Len(scSegState) : scSegState[i] = "failed"
  /\ \E i \in 1..Len(scSegState) : scSegState[i] = "done"

\* ------------------------------------------------------------ C25 (SpecClassify)
ClJudged(site) == clPc = "judged" /\ clSite = site
VerdictMatchesRows ==
  /\ clVerdict.wouldEmit <=> clRows # <<>>
  /\ clVerdict.wouldEmit => clRows[1].direction = clVerdict.direction
  /\ clVerdict.thrown <=> clThrown

\* C25: the sanity-check verdict agrees with the scanner: for every block,
\* wouldCaptureIcpBlock reports wouldEmit with direction D iff handleBlock
\* emits a row with direction D, and wouldCaptureIcrc3Block agrees in the same
\* way with handleIcrcBlock, blocks with a missing or zero timestamp included.
C25_VerdictAgreesWithScanner ==
  (ClJudged("icpBlock") \/ ClJudged("icrc3Block")) => VerdictMatchesRows

\* What holds of C25: the ICRC-3 verdict agrees for every block, and the ICP
\* verdict for every block whose timestamp is present and not in millisecond 0.
C25_AgreesForTruthyTimestamp ==
  /\ ClJudged("icrc3Block") => VerdictMatchesRows
  /\ (ClJudged("icpBlock") /\ TruthyMs(n64ToMillis(clInput.timestamp))) => VerdictMatchesRows

\* A judged ICP block without timestamp that handleBlock appended as inflow.
C25_MissingTimestampJudged ==
  /\ ClJudged("icpBlock") /\ ~clInput.timestamp.has
  /\ clRows # <<>> /\ clRows[1].direction = "inflow" /\ ~clVerdict.wouldEmit

\* ------------------------------------------------------------ C26 (SpecRun)
\* main has not gone past the sanity checks: no header, no write, no scan.
NothingWrittenOrScanned ==
  /\ rnFile = rnFile0
  /\ \A l \in Ledgers : rnScan[l] = "idle"
  /\ rnTotal = 0
FetchRejected(i) == rnChecks[i] = "failed" \/ rnMeta[i] = "default"

\* C26: in the parallel scanner, if any sanity-check fetch rejects, main
\* rejects before ensureCsvHeader runs and before any ledger scan starts: no
\* file is written, no ledger is scanned, and the process exits with code 1.
C26_AnyRejectedFetchEndsMain ==
  (rnVariant = "block" /\ \E i \in 1..SanityChecks : FetchRejected(i)) =>
    /\ rnPc \in {"sanity", "failed"}
    /\ NothingWrittenOrScanned

\* C26 as amended: if the block fetch of a sanity check (its main page or one
\* of its archive ranges) rejects, main rejects there (main().catch exits with
\* code 1): the later checks never start, the header is not ensured, no file
\* is written and no ledger is scanned.  A rejected symbol or decimals request
\* of a check is swallowed and does not end main.
C26_RejectedBlockFetchEndsMain ==
  rnVariant = "block" =>
    \A i \in 1..SanityChecks :
      rnChecks[i] = "failed" =>
        /\ rnPc = "failed" /\ <<"main", "fatal">> \in rnLog
        /\ NothingWrittenOrScanned
        /\ \A j \in (i + 1)..SanityChecks : rnChecks[j] = "pending"

\* The second check's block fetch rejected after the first check was done with
\* the default symbol: main has rejected, the file is still missing although
\* the ledgers hold matching transactions.
C26_Witness ==
  /\ rnVariant = "block" /\ rnPc = "failed"
  /\ rnChecks[1] = "done" /\ rnMeta[1] = "default" /\ rnChecks[2] = "failed"
  /\ rnFile0 = NoFile /\ rnFile = NoFile
  /\ \A l \in Ledgers : rnMatching[l] >= 1

\* ------------------------------------------------------ SpecPaging
\* The paginated fetches of the REST scanners.  MaxRestIter stands for the
\* 1000 of `iterations < 1000`, RestLimit for limit = min(100, pageSize).
ApiFunctions == {"fetchByAccount", "fetchGlobalFallback", "fetchViaRosetta", "icrcFetchByAccount"}
EarlierFunctions == {"fetchIcpTxByAccountHex", "fetchIcpTxByAccountHexFallback"}
PgFunctions == ApiFunctions \cup EarlierFunctions

\* for (let iterations = 0; iterations < 1000; iterations++)  /  for (;;)
Capped(fn) == fn \in ApiFunctions

FirstLoop(fn) ==
  CASE fn \in {"fetchByAccount", "fetchIcpTxByAccountHex"} -> "v2"
    [] fn \in {"fetchGlobalFallback", "fetchIcpTxByAccountHexFallback"} -> "v2from"
    [] fn = "fetchViaRosetta" -> "rosetta"
    [] OTHER -> "icrc"

RECURSIVE DescList(_)
DescList(S) ==
  IF S = {} THEN <<>>
  ELSE LET m == CHOOSE x \in S : \A y \in S : y <= x
       IN  <<m>> \o DescList(S \ {m})

\* What the ledger holds for a loop's query, sort_by -block_height: the
\* account's transactions, or those it sent (from_account), or those it
\* received (to_account); a transfer to itself is in both.
QueryList(kinds, loop) ==
  DescList({k \in 1..Len(kinds) :
              CASE loop \in {"v2from", "v1from"} -> kinds[k] \in {"out", "self"}
                [] loop \in {"v2to", "v1to"} -> kinds[k] \in {"in", "self"}
                [] OTHER -> TRUE})

\* One response: the items, whether a next cursor / offset comes with it, and
\* whether the total the v1 response names has been reached by outLen items.
ServerPage(kinds, loop, pos, server, outLen) ==
  LET Q == QueryList(kinds, loop)
  IN  IF server = "endless" /\ Len(Q) > 0
      THEN [items |-> [k \in 1..RestLimit |-> Q[((pos + k - 1) % Len(Q)) + 1]],
            next |-> TRUE, totalReached |-> FALSE]
      ELSE [items |-> IF pos >= Len(Q) THEN <<>>
                      ELSE SubSeq(Q, pos + 1, Min(pos + RestLimit, Len(Q))),
            next |-> pos + RestLimit < Len(Q),
            totalReached |-> outLen >= Len(Q)]

\* The break test after the push.
LoopBreaks(fn, loop, page, outLen) ==
  CASE loop \in {"v2", "v2from", "v2to", "rosetta", "icrc"} ->
         ~page.next \/ Len(page.items) < RestLimit
    [] loop = "v1" /\ fn = "fetchIcpTxByAccountHex" ->
         Len(page.items) = 0 \/ page.totalReached \/ Len(page.items) < RestLimit
    [] OTHER -> Len(page.items) = 0 \/ Len(page.items) < RestLimit

\* What follows a loop that has ended, with outLen items in the list.
AfterLoop(loop, outLen) ==
  CASE loop = "v2" -> IF outLen > 0 THEN "done" ELSE "v1"
    [] loop = "v2from" -> "v2to"
    [] loop = "v2to" -> IF outLen > 0 THEN "done" ELSE "v1from"
    [] loop = "v1from" -> "v1to"
    [] OTHER -> "done"

\* A rejected request: the v2 loops run inside try { } catch { /* v1 */ }
OnReject(loop) ==
  CASE loop = "v2" -> "v1"
    [] loop \in {"v2from", "v2to"} -> "v1from"
    [] OTHER -> "thrown"

\* A loop without a cap is followed one request beyond the cap of the others.
MayIterate(fn, iter) == IF Capped(fn) THEN iter < MaxRestIter ELSE iter <= MaxRestIter

PgInit ==
  /\ SgIdle /\ ClIdle /\ ScIdle /\ SqIdle /\ FnIdle /\ RnIdle /\ RsIdle
  /\ pgFn \in PgFunctions /\ pgServer \in {"honest", "endless"}
  /\ \E n \in 0..MaxTx : pgKinds \in [1..n -> {"in", "out", "self"}]
  /\ pgLoop = FirstLoop(pgFn)
  /\ pgIter = 0 /\ pgPos = 0 /\ pgOut = <<>>
  /\ pgReq = [l \in PgLoops |-> 0] /\ pgCsv = <<>>

PgOthersUnchanged == UNCHANGED <<sgVars, clVars, scVars, sqVars, fnVars, rnVars, rsVars>>

\* One iteration whose request is answered: push the items, then break or go on.
PageResolves ==
  /\ pgLoop \in PgLoops /\ MayIterate(pgFn, pgIter)
  /\ LET items == ServerPage(pgKinds, pgLoop, pgPos, pgServer, 0).items
         out == pgOut \o items
         page == ServerPage(pgKinds, pgLoop, pgPos, pgServer, Len(out))
     IN  /\ pgOut' = out
         /\ pgReq' = [pgReq EXCEPT ![pgLoop] = @ + 1]
         /\ IF LoopBreaks(pgFn, pgLoop, page, Len(out))
            THEN pgLoop' = AfterLoop(pgLoop, Len(out)) /\ pgIter' = 0 /\ pgPos' = 0
            ELSE pgLoop' = pgLoop /\ pgIter' = pgIter + 1 /\ pgPos' = pgPos + Len(page.items)
  /\ UNCHANGED <<pgFn, pgServer, pgKinds, pgCsv>>
  /\ PgOthersUnchanged

\* iterations < 1000 is false: the loop ends without a break
LoopCapReached ==
  /\ pgLoop \in PgLoops /\ Capped(pgFn) /\ pgIter = MaxRestIter
  /\ pgLoop' = AfterLoop(pgLoop, Len(pgOut)) /\ pgIter' = 0 /\ pgPos' = 0
  /\ UNCHANGED <<pgFn, pgServer, pgKinds, pgOut, pgReq, pgCsv>>
  /\ PgOthersUnchanged

\* One iteration whose request rejects (every base URL failed)
PageRejects ==
  /\ pgLoop \in PgLoops /\ MayIterate(pgFn, pgIter)
  /\ pgReq' = [pgReq EXCEPT ![pgLoop] = @ + 1]
  /\ pgLoop' = OnReject(pgLoop) /\ pgIter' = 0 /\ pgPos' = 0
  /\ UNCHANGED <<pgFn, pgServer, pgKinds, pgOut, pgCsv>>
  /\ PgOthersUnchanged

\* scanIcp: for (const tx of transactions) { row = fromIcpTransaction(tx); if (row) appendRow }
\* Every transaction of the account's lists has the account as from or to.
AppendRows ==
  /\ pgLoop = "done" /\ pgFn \notin {"icrcFetchByAccount"}
  /\ pgCsv' = pgOut
  /\ pgLoop' = "written"
  /\ UNCHANGED <<pgFn, pgServer, pgKinds, pgIter, pgPos, pgOut, pgReq>>
  /\ PgOthersUnchanged

PgNext ==
  \/ PageResolves
  \/ LoopCapReached
  \/ PageRejects
  \/ AppendRows

SpecPaging == PgInit /\ [][PgNext]_vars

\* ------------------------------------------------------------ C27 (SpecPaging)
PgReturned == pgLoop \in {"done", "written"}
NoDuplicates(seq) == \A a, b \in 1..Len(seq) : seq[a] = seq[b] => a = b

\* C27: the list fetchByAccount returns holds each ledger transaction at most
\* once, also when the v2 query fails after one or more pages and the v1
\* fallback then runs.
C27_AccountListHasNoDuplicate ==
  (pgFn \in {"fetchByAccount", "fetchIcpTxByAccountHex"} /\ pgServer = "honest" /\ PgReturned)
    => NoDuplicates(pgOut)

\* What holds of C27: without a rejected v2 request the returned list holds
\* each transaction once.
C27_NoDuplicateWithoutV2Failure ==
  (/\ pgFn \in {"fetchByAccount", "fetchIcpTxByAccountHex"} /\ pgServer = "honest" /\ PgReturned
   /\ ~(pgReq["v2"] >= 2 /\ pgReq["v1"] >= 1))
    => NoDuplicates(pgOut)

\* ------------------------------------------------------------ C28 (SpecPaging)
\* C28: the list fetchGlobalFallback returns holds each ledger transaction at
\* most once, a transfer from the watched account to itself included (it is
\* returned by the from_account query and by the to_account query), and such
\* a transfer is appended to the CSV file once.
C28_GlobalListHasNoDuplicate ==
  (pgFn \in {"fetchGlobalFallback", "fetchIcpTxByAccountHexFallback"} /\ pgServer = "honest") =>
    /\ PgReturned => NoDuplicates(pgOut)
    /\ pgLoop = "written" => NoDuplicates(pgCsv)

\* What holds of C28: with no transfer of the account to itself and no
\* rejected request, the returned list and the appended rows hold each
\* transaction once.
C28_NoDuplicateWithoutSelfTransfer ==
  (/\ pgFn \in {"fetchGlobalFallback", "fetchIcpTxByAccountHexFallback"} /\ pgServer = "honest"
   /\ \A k \in 1..Len(pgKinds) : pgKinds[k] # "self"
   /\ pgReq["v1from"] = 0 /\ pgReq["v1to"] = 0) =>
    /\ PgReturned => NoDuplicates(pgOut)
    /\ pgLoop = "written" => NoDuplicates(pgCsv)

\* ------------------------------------------------------------ C29 (SpecPaging)
\* C29: every pagination loop of the REST scanners (account query v2 and v1,
\* global query, Rosetta search, ICRC account query) ends for every sequence
\* of server responses, a server that always returns a full page with a next
\* cursor or offset included, and issues at most 1000 requests (MaxRestIter
\* here).
C29_EveryLoopWithinCap ==
  /\ \A l \in PgLoops : pgReq[l] <= MaxRestIter
  /\ (pgLoop \in PgLoops /\ pgIter >= MaxRestIter) => ENABLED LoopCapReached

\* What holds of C29: the loops of api_scanner.ts issue at most the cap.
C29_ApiLoopsWithinCap ==
  Capped(pgFn) =>
    /\ \A l \in PgLoops : pgReq[l] <= MaxRestIter
    /\ (pgLoop \in PgLoops /\ pgIter >= MaxRestIter) => ENABLED LoopCapReached

\* ------------------------------------------------------------ C30 (SpecFunctions)
\* C30: in the flow retriever, after all addresses of an asset are processed,
\* summary.byAsset[asset].totalReceived and totalSent are the decimal
\* formatting of the sum of flow.totalReceived, respectively flow.totalSent,
\* over all flows of the asset, for any number of addresses and any amounts.
C30_TotalsAreFormattedSums ==
  FnDone("summaryTotals") =>
    /\ fnOut.totalReceived = flowFormatAmount(DigitsOf(SumOfFlows(fnIn.flows, "totalReceived")), fnIn.d)
    /\ fnOut.totalSent = flowFormatAmount(DigitsOf(SumOfFlows(fnIn.flows, "totalSent")), fnIn.d)

\* What holds of C30: the totals are right for an asset with at most one
\* address with transactions.
C30_RightForOneFlow ==
  (FnDone("summaryTotals") /\ Len(fnIn.flows) <= 1) =>
    /\ fnOut.totalReceived = flowFormatAmount(DigitsOf(SumOfFlows(fnIn.flows, "totalReceived")), fnIn.d)
    /\ fnOut.totalSent = flowFormatAmount(DigitsOf(SumOfFlows(fnIn.flows, "totalSent")), fnIn.d)

\* Two addresses that received 10 and 5 base units of an asset with one
\* decimal: the summary says 0.6 where the sum is 1.5.
C30_TrailingZeroLost ==
  /\ FnDone("summaryTotals") /\ fnIn.d = 1 /\ Len(fnIn.flows) = 2
  /\ fnIn.flows[1].totalReceived = 10 /\ fnIn.flows[2].totalReceived = 5
  /\ fnOut.totalReceived = <<"0", ".", "6">>

=============================================================================
